---- MODULE Spec2Model ----
(***************************************************************************)
(* Decoding control of praxis/layers/models.py: LanguageModel.decode,      *)
(* SequenceModel.decode and the metric helper _compute_xent_loss_helper.   *)
(* Positions are 0-based in the source and 1-based here: position i of the *)
(* source is index i + 1 of a sequence.                                    *)
(***************************************************************************)
EXTENDS Integers, Sequences, FiniteSets, TLC

VARIABLES
  p,            \* self.hparams.decoder (plus the task class)
  input_batch,  \* the caller's batch, a NestedMap
  lm_w,         \* the weights of the underlying model
  pc,           \* position inside the running call
  loc,          \* local variables of the running call
  cache,        \* DecodeState held by the underlying model
  prng,         \* number of PRNG keys handed out by next_prng_key
  events,       \* effects of the running call, in order
  invoked,      \* search strategies invoked by the running call, with arguments
  result,       \* second element of the returned pair
  metrics,      \* first element of the returned pair
  error,        \* exception raised by the running call
  calls,        \* number of calls started so far
  prev,         \* what the previous call returned
  predictions,  \* what compute_predictions returned to the caller
  pax_layer_registry  \* the module-level dict of layer_utils

vars == <<p, input_batch, lm_w, pc, loc, cache, prng, events, invoked,
          result, metrics, error, calls, prev, predictions, pax_layer_registry>>

(* ------------------------------ bounds --------------------------------- *)
MaxBatch == 2
MaxWidth == 2
MaxSeqLen == 3
MaxDecodeSteps == 2
MaxMinPrefix == 1
NumWeights == 2
NumSeeds == 2
MaxCalls == 2

(* --------------------------- small helpers ----------------------------- *)
\* Optional values: None is the empty tuple, a present value v is <<v>>.
None == << >>
Some(v) == <<v>>
IsNone(x) == x = << >>
Val(x) == x[1]

Min(a, b) == IF a < b THEN a ELSE b
Max(a, b) == IF a > b THEN a ELSE b

RECURSIVE SumSeq(_)
SumSeq(s) == IF Len(s) = 0 THEN 0 ELSE Head(s) + SumSeq(Tail(s))

\* NestedMap is a dict: a function from field names to values.
EmptyMap == << >>
Has(m, k) == k \in DOMAIN m
Update(m, other) == other @@ m
Del(m, k) == [x \in DOMAIN m \ {k} |-> m[x]]

Shape0(a) == Len(a)
Shape1(a) == Len(a[1])

(* ---------------------- decoder class hierarchy ------------------------ *)
Variants == {"FlatBeam", "Beam", "Sample", "Greedy"}
DecoderKinds == Variants \cup {"DecoderHParams"}
AllKinds == DecoderKinds \cup {"NotDecoder"}

IsDecoderHParams(kind) == kind \in DecoderKinds


(* ------------------- the underlying model (collaborator) --------------- *)
\* argmax of the logits returned by one extend_step: a fixed function of the
\* weights, the previous token and the position.
NextToken(w, prevtok, t) == (prevtok + t + w) % 3

\* The forward pass creates the cache with the time dimension of its input.
PrimeCache(fprop_ids) == [created |-> TRUE, time |-> Shape1(fprop_ids)]

\* decoder_utils.pad_state_fn(n) grows the time dimension by n.
PadState(c, n) == [c EXCEPT !.time = c.time + n]

NoCache == [created |-> FALSE, time |-> 0]

(* ------------------- prefix alignment (sample_decode) ------------------ *)
Zeros(n) == [i \in 1..n |-> 0]
\* Mutant of Ones: the array is filled with zeros.
OnesAsZeros(n) == [i \in 1..n |-> 0]

Ones(n) == [i \in 1..n |-> 1]

\* right_align_prefix_ids: tokens pushed to the end, left side padded.
RightAlignRow(row, plen) ==
  LET M == Len(row)
      shift == Max(M - plen, 0)
  IN [i \in 1..M |-> IF i <= shift THEN 0 ELSE row[i - shift]]

RightAlignPaddingsRow(row, plen) ==
  LET M == Len(row)
      shift == Max(M - plen, 0)
  IN [i \in 1..M |-> IF i <= shift THEN 1 ELSE 0]

\* right_align_segment_position: position inside the real prefix.
RightAlignSegmentPosRow(plen, M) ==
  [i \in 1..M |-> Max((i - 1) - (M - plen), 0)]

\* Mutant of SegmentIdsRow: the comparison is <= instead of <.
SegmentIdsRowOffByOne(plen, M) ==
  [i \in 1..M |-> IF (i - 1) <= (M - plen) THEN 0 ELSE 1]

\* jnp.where(arange(M) < M - L, zeros, ones), one row.
SegmentIdsRow(plen, M) ==
  [i \in 1..M |-> IF (i - 1) < (M - plen) THEN 0 ELSE 1]

\* jnp.pad(x, [[0, 0], [0, n]], constant_values=c), one row.
PadRow(row, n, c) == row \o [i \in 1..n |-> c]

(* ------------------------- search strategies --------------------------- *)
\* One row of the step loop shared by the strategies: positions below the
\* prefix length copy the input, later positions take the model's token; the
\* row stops when it emits eos or has produced `steps` tokens, and emits
\* padding afterwards.  len is the first stop index, or seq_len without stop.
RECURSIVE GenRow(_, _, _, _, _, _, _, _, _)
GenRow(out, done, dl, ids_row, plen, seq_len, steps, eos, w) ==
  LET t == Len(out) + 1 IN
  IF t > seq_len
  THEN [ids |-> out, len |-> IF done THEN dl ELSE seq_len]
  ELSE IF t <= plen
  THEN GenRow(Append(out, IF t <= Len(ids_row) THEN ids_row[t] ELSE 0),
              done, dl, ids_row, plen, seq_len, steps, eos, w)
  ELSE IF done
  THEN GenRow(Append(out, 0), done, dl, ids_row, plen, seq_len, steps, eos, w)
  ELSE LET prevtok == IF t = 1 THEN 0 ELSE out[t - 1]
           tok == NextToken(w, prevtok, t)
           stop == tok = eos \/ t - plen >= steps
       IN GenRow(Append(out, tok), stop, IF stop THEN t ELSE 0,
                 ids_row, plen, seq_len, steps, eos, w)

\* Left-aligns a row decoded from a right-aligned prefix.
LeftAlignRow(row, shift) ==
  [i \in 1..Len(row) |-> IF i + shift <= Len(row) THEN row[i + shift] ELSE 0]

DecodeRow(ids_row, plen, seq_len, fprop, max_prefix_len, mds, eos, w) ==
  IF fprop
  THEN LET g == GenRow(<< >>, FALSE, 0, ids_row, max_prefix_len, seq_len,
                       Val(mds), eos, w)
           shift == Max(max_prefix_len - plen, 0)
       IN [ids |-> LeftAlignRow(g.ids, shift), len |-> g.len - shift]
  ELSE GenRow(<< >>, FALSE, 0, ids_row, plen, seq_len,
              IF IsNone(mds) THEN seq_len ELSE Val(mds), eos, w)

NonPadCount(paddings) == [b \in 1..Len(paddings) |-> SumSeq([i \in 1..Len(paddings[b]) |-> 1 - paddings[b][i]])]

\* The DecodeResult of a step-loop search over the whole batch.
DecodeLoop(ids, paddings, seq_len, fprop, max_prefix_len, mds, plens, eos, w) ==
  LET B == Len(ids)
      rows == [b \in 1..B |-> DecodeRow(ids[b], plens[b], seq_len, fprop,
                                        max_prefix_len, mds, eos, w)]
  IN [output_ids |-> [b \in 1..B |-> rows[b].ids],
      decode_lengths |-> [b \in 1..B |-> rows[b].len],
      prefix_lengths |-> plens,
      original_lengths |-> NonPadCount(paddings)]

(* ------------------------------ inputs --------------------------------- *)
\* A row with n real tokens 5, 6, 7, ... followed by padding.
RowIds(n, W) == [i \in 1..W |-> IF i <= n THEN 4 + i ELSE 0]
RowPaddings(n, W) == [i \in 1..W |-> IF i <= n THEN 0 ELSE 1]

\* Batches of B rows of width W, with and without prefix_lengths.
PlainBatches ==
  UNION { { [ids |-> [b \in 1..B |-> RowIds(n[b], W)],
             paddings |-> [b \in 1..B |-> RowPaddings(n[b], W)]] :
            n \in [1..B -> 0..W] } :
          <<B, W>> \in (1..MaxBatch) \X (1..MaxWidth) }

LmBatches ==
  PlainBatches \cup
  UNION { { Update(bt, [prefix_lengths |-> pl]) :
            pl \in [1..Len(bt.ids) -> 0..Len(bt.ids[1])] } : bt \in PlainBatches }

DecoderConfigs ==
  { c \in [kind : AllKinds, seqlen : 0..MaxSeqLen, eos_id : {0},
           min_prefix_len : 0..MaxMinPrefix, fprop_for_prefix : BOOLEAN,
           max_decode_steps : {None} \cup {Some(n) : n \in 1..MaxDecodeSteps},
           lazy_prefix_broadcast : BOOLEAN] :
      c.lazy_prefix_broadcast => c.kind = "Sample" }

(* ------------------------ LanguageModel.decode ------------------------- *)
\* The call fails with exception e.
Raise(e) ==
  /\ pc' = "failed"
  /\ error' = e
  /\ events' = Append(events, "raise")

\* Mutant of CheckConfig: the seqlen check accepts 0.
CheckConfigAcceptsZero ==
  /\ pc = "start"
  /\ IF ~IsDecoderHParams(p.kind) THEN Raise("ValueError")
     ELSE IF p.seqlen < 0 THEN Raise("ValueError")
     ELSE /\ pc' = "prefix_lengths"
          /\ UNCHANGED <<error, events>>
  /\ UNCHANGED <<pax_layer_registry, p, input_batch, lm_w, loc, cache, prng, invoked, result,
                 metrics, calls, prev, predictions>>

\* Type and seqlen checks at the head of decode.
CheckConfig ==
  /\ pc = "start"
  /\ IF ~IsDecoderHParams(p.kind) THEN Raise("ValueError")
     ELSE IF p.seqlen <= 0 THEN Raise("ValueError")
     ELSE /\ pc' = "prefix_lengths"
          /\ UNCHANGED <<error, events>>
  /\ UNCHANGED <<pax_layer_registry, p, input_batch, lm_w, loc, cache, prng, invoked, result,
                 metrics, calls, prev, predictions>>

\* Mutant of RandInt: the upper bound is inclusive.
RandIntInclusive(minval, maxval1) ==
  { d \in [1..Len(minval) -> 0..SumSeq(maxval1)] :
      \A b \in 1..Len(minval) : minval[b] <= d[b] /\ d[b] <= maxval1[b] }

\* jax.random.randint(key, [batch_size], minval, maxval1): one value per row in
\* [minval, maxval1).
RandInt(minval, maxval1) ==
  { d \in [1..Len(minval) -> 0..SumSeq(maxval1)] :
      \A b \in 1..Len(minval) : minval[b] <= d[b] /\ d[b] < maxval1[b] }

\* Mutant of SetPrefixLengths: the batch's prefix_lengths are ignored.
SetPrefixLengthsAlwaysDrawn ==
  /\ pc = "prefix_lengths"
  /\ LET batch_size == Shape0(input_batch.ids)
         maxval == NonPadCount(input_batch.paddings)
         minval == [b \in 1..batch_size |-> Min(maxval[b], p.min_prefix_len)]
     IN \E d \in RandInt(minval, [b \in 1..batch_size |-> maxval[b] + 1]) :
          /\ loc' = Update(loc, [batch_size |-> batch_size, prefix_lengths |-> d])
          /\ prng' = prng + 1
          /\ events' = Append(events, "prng")
  /\ pc' = "prepare"
  /\ UNCHANGED <<pax_layer_registry, p, input_batch, lm_w, cache, invoked, result, metrics, error,
                 calls, prev, predictions>>

\* prefix_lengths from the batch, or drawn per row.
SetPrefixLengths ==
  /\ pc = "prefix_lengths"
  /\ LET batch_size == Shape0(input_batch.ids) IN
     IF Has(input_batch, "prefix_lengths")
     THEN /\ loc' = Update(loc, [batch_size |-> batch_size,
                                 prefix_lengths |-> input_batch.prefix_lengths])
          /\ UNCHANGED <<prng, events>>
     ELSE LET maxval == NonPadCount(input_batch.paddings)
              minval == [b \in 1..batch_size |-> Min(maxval[b], p.min_prefix_len)]
          IN \E d \in RandInt(minval, [b \in 1..batch_size |-> maxval[b] + 1]) :
               /\ loc' = Update(loc, [batch_size |-> batch_size,
                                      prefix_lengths |-> d])
               /\ prng' = prng + 1
               /\ events' = Append(events, "prng")
  /\ pc' = "prepare"
  /\ UNCHANGED <<pax_layer_registry, p, input_batch, lm_w, cache, invoked, result, metrics, error,
                 calls, prev, predictions>>

\* Mutant of PrefixFpropLocals: the search buffers are not extended by
\* max_decode_steps.
PrefixFpropLocalsUnextended(prefix_lengths, max_prefix_len) ==
  LET B == Shape0(input_batch.ids)
      fprop_input_ids == [b \in 1..B |-> RightAlignRow(input_batch.ids[b], prefix_lengths[b])]
      fprop_input_paddings == [b \in 1..B |-> RightAlignPaddingsRow(input_batch.ids[b], prefix_lengths[b])]
      steps == Val(p.max_decode_steps)
  IN [seqlen |-> max_prefix_len + steps,
      start_time_step |-> max_prefix_len - 1,
      fprop_input_ids |-> fprop_input_ids,
      fprop_input_paddings |-> fprop_input_paddings,
      fprop_segment_pos |-> Some([b \in 1..B |-> RightAlignSegmentPosRow(prefix_lengths[b], max_prefix_len)]),
      fprop_segment_ids |-> Some([b \in 1..B |-> SegmentIdsRow(prefix_lengths[b], max_prefix_len)]),
      state_padding_size |-> steps,
      input_ids |-> fprop_input_ids,
      input_paddings |-> fprop_input_paddings]

\* The locals of the fprop_for_prefix branch.
PrefixFpropLocals(prefix_lengths, max_prefix_len) ==
  LET B == Shape0(input_batch.ids)
      fprop_input_ids == [b \in 1..B |-> RightAlignRow(input_batch.ids[b], prefix_lengths[b])]
      fprop_input_paddings == [b \in 1..B |-> RightAlignPaddingsRow(input_batch.ids[b], prefix_lengths[b])]
      steps == Val(p.max_decode_steps)
  IN [seqlen |-> max_prefix_len + steps,
      start_time_step |-> max_prefix_len - 1,
      fprop_input_ids |-> fprop_input_ids,
      fprop_input_paddings |-> fprop_input_paddings,
      fprop_segment_pos |-> Some([b \in 1..B |-> RightAlignSegmentPosRow(prefix_lengths[b], max_prefix_len)]),
      fprop_segment_ids |-> Some([b \in 1..B |-> SegmentIdsRow(prefix_lengths[b], max_prefix_len)]),
      state_padding_size |-> steps,
      input_ids |-> [b \in 1..B |-> PadRow(fprop_input_ids[b], steps, 0)],
      input_paddings |-> [b \in 1..B |-> PadRow(fprop_input_paddings[b], steps, 1)]]

\* Mutant of PlainLocals: the sequence length is the batch's width.
PlainLocalsBatchWidth ==
  LET B == Shape0(input_batch.ids) IN
  [seqlen |-> Shape1(input_batch.ids),
   start_time_step |-> 0,
   input_ids |-> input_batch.ids,
   input_paddings |-> input_batch.paddings,
   fprop_input_ids |-> [b \in 1..B |-> Zeros(1)],
   fprop_input_paddings |-> [b \in 1..B |-> Ones(1)],
   fprop_segment_pos |-> None,
   fprop_segment_ids |-> None,
   state_padding_size |-> Shape1(input_batch.ids) - 1]

\* The locals of the branch without fprop_for_prefix.
PlainLocals ==
  LET B == Shape0(input_batch.ids) IN
  [seqlen |-> p.seqlen,
   start_time_step |-> 0,
   input_ids |-> input_batch.ids,
   input_paddings |-> input_batch.paddings,
   fprop_input_ids |-> [b \in 1..B |-> Zeros(1)],
   fprop_input_paddings |-> [b \in 1..B |-> Ones(1)],
   fprop_segment_pos |-> None,
   fprop_segment_ids |-> None,
   state_padding_size |-> p.seqlen - 1]

\* Sequence length, start step and the buffers for priming and search.
Prepare ==
  /\ pc = "prepare"
  /\ LET max_prefix_len == Shape1(input_batch.ids) IN
     IF p.fprop_for_prefix
     THEN IF IsNone(p.max_decode_steps)
          THEN Raise("ValueError") /\ UNCHANGED loc
          ELSE /\ loc' = Update(loc, Update([max_prefix_len |-> max_prefix_len],
                                  PrefixFpropLocals(loc.prefix_lengths, max_prefix_len)))
               /\ pc' = "dispatch"
               /\ UNCHANGED <<error, events>>
     ELSE /\ loc' = Update(loc, Update([max_prefix_len |-> max_prefix_len], PlainLocals))
          /\ pc' = "dispatch"
          /\ UNCHANGED <<error, events>>
  /\ UNCHANGED <<pax_layer_registry, p, input_batch, lm_w, cache, prng, invoked, result, metrics,
                 calls, prev, predictions>>

\* Mutant of Branch: the greedy configuration falls into the sampling branch.
BranchGreedyAsSample(kind) ==
  IF kind = "FlatBeam" THEN "flat_beam_search"
  ELSE IF kind = "Beam" THEN "beam_search"
  ELSE IF kind \in {"Sample", "Greedy"} THEN "sample_decode"
  ELSE "unimplemented"

\* The isinstance chain that selects the search strategy.
Branch(kind) ==
  IF kind = "FlatBeam" THEN "flat_beam_search"
  ELSE IF kind = "Beam" THEN "beam_search"
  ELSE IF kind = "Sample" THEN "sample_decode"
  ELSE IF kind = "Greedy" THEN "greedy_decode"
  ELSE "unimplemented"

\* Strategies whose branch primes the cache inside decode.
PrimesInDecode(kind) ==
  Branch(kind) \in {"flat_beam_search", "sample_decode", "greedy_decode"}

\* Mutant of PadsInDecode: lazy-broadcast sampling pads as well.
PadsInDecodeAlways(c) ==
  Branch(c.kind) \in {"flat_beam_search", "greedy_decode", "sample_decode"}

\* Strategies whose branch pads the primed cache inside decode.
PadsInDecode(c) ==
  \/ Branch(c.kind) \in {"flat_beam_search", "greedy_decode"}
  \/ Branch(c.kind) = "sample_decode" /\ ~c.lazy_prefix_broadcast

\* Mutant of SuffixArgs: lazy_prefix_broadcast is not looked at.
SuffixArgsWithoutLazyTest ==
  IF Has(input_batch, "suffix") /\ Has(input_batch, "suffix_lengths")
  THEN [suffix |-> Some(input_batch.suffix),
        suffix_lengths |-> Some(input_batch.suffix_lengths)]
  ELSE [suffix |-> None, suffix_lengths |-> None]

\* suffix and suffix_lengths handed to sample_decode.
SuffixArgs ==
  IF Has(input_batch, "suffix") /\ Has(input_batch, "suffix_lengths")
  THEN IF ~p.lazy_prefix_broadcast
       THEN [suffix |-> None, suffix_lengths |-> None]
       ELSE [suffix |-> Some(input_batch.suffix),
             suffix_lengths |-> Some(input_batch.suffix_lengths)]
  ELSE [suffix |-> None, suffix_lengths |-> None]

\* self.lm(fprop_input_ids, fprop_input_paddings, ...): init cache states.
InitCacheStates ==
  /\ pc = "dispatch"
  /\ PrimesInDecode(p.kind)
  /\ loc' = IF Branch(p.kind) = "sample_decode" THEN Update(loc, SuffixArgs) ELSE loc
  /\ cache' = PrimeCache(loc.fprop_input_ids)
  /\ events' = Append(events, "lm")
  /\ pc' = "primed"
  /\ UNCHANGED <<pax_layer_registry, p, input_batch, lm_w, prng, invoked, result, metrics, error,
                 calls, prev, predictions>>

\* self.lm.transform_decode_state(pad_state_fn(state_padding_size)).
PadToFullLength ==
  /\ pc = "primed"
  /\ PadsInDecode(p)
  /\ cache' = PadState(cache, loc.state_padding_size)
  /\ events' = Append(events, "pad_state")
  /\ pc' = "padded"
  /\ UNCHANGED <<pax_layer_registry, p, input_batch, lm_w, loc, prng, invoked, result, metrics,
                 error, calls, prev, predictions>>

\* What a search is handed: its name and its arguments.
SearchCall(fn, ids, paddings, args) ==
  Update([fn |-> fn, ids |-> ids, paddings |-> paddings], args)

\* Mutant of FlatBeamSearch: the branch asserts fprop_for_prefix like the
\* beam_search branch.
FlatBeamSearchAsserts ==
  /\ pc = "padded"
  /\ Branch(p.kind) = "flat_beam_search"
  /\ IF ~p.fprop_for_prefix
     THEN /\ Raise("AssertionError")
          /\ UNCHANGED <<invoked, result>>
     ELSE /\ invoked' = Append(invoked,
                SearchCall("flat_beam_search", loc.input_ids, loc.input_paddings,
                           [seq_len |-> loc.seqlen,
                            max_decode_steps |-> p.max_decode_steps,
                            eos_id |-> p.eos_id]))
          /\ result' = DecodeLoop(loc.input_ids, loc.input_paddings, loc.seqlen, FALSE,
                                  loc.max_prefix_len, p.max_decode_steps,
                                  NonPadCount(loc.input_paddings), p.eos_id, lm_w)
          /\ events' = Append(events, "flat_beam_search")
          /\ pc' = "searched"
          /\ UNCHANGED error
  /\ UNCHANGED <<pax_layer_registry, p, input_batch, lm_w, loc, cache, prng, metrics, calls,
                 prev, predictions>>

FlatBeamSearch ==
  /\ pc = "padded"
  /\ Branch(p.kind) = "flat_beam_search"
  /\ invoked' = Append(invoked,
        SearchCall("flat_beam_search", loc.input_ids, loc.input_paddings,
                   [seq_len |-> loc.seqlen, max_decode_steps |-> p.max_decode_steps,
                    eos_id |-> p.eos_id]))
  /\ result' = DecodeLoop(loc.input_ids, loc.input_paddings, loc.seqlen, FALSE,
                          loc.max_prefix_len, p.max_decode_steps,
                          NonPadCount(loc.input_paddings), p.eos_id, lm_w)
  /\ events' = Append(events, "flat_beam_search")
  /\ pc' = "searched"
  /\ UNCHANGED <<pax_layer_registry, p, input_batch, lm_w, loc, cache, prng, metrics, error, calls,
                 prev, predictions>>

\* beam_search primes the cache through fprop_fn and pads it through
\* transform_decode_state_fn itself.
BeamSearch ==
  /\ pc = "dispatch"
  /\ Branch(p.kind) = "beam_search"
  /\ IF ~p.fprop_for_prefix
     THEN /\ Raise("AssertionError")
          /\ UNCHANGED <<invoked, result, cache>>
     ELSE /\ invoked' = Append(invoked,
                SearchCall("beam_search", loc.fprop_input_ids,
                           loc.fprop_input_paddings,
                           [fprop_fn |-> TRUE, transform_decode_state_fn |-> TRUE,
                            decoder |-> p]))
          /\ cache' = PadState(PrimeCache(loc.fprop_input_ids), Val(p.max_decode_steps))
          /\ result' = DecodeLoop(
                [b \in 1..loc.batch_size |-> PadRow(loc.fprop_input_ids[b], Val(p.max_decode_steps), 0)],
                loc.fprop_input_paddings,
                Shape1(loc.fprop_input_ids) + Val(p.max_decode_steps), TRUE,
                Shape1(loc.fprop_input_ids), p.max_decode_steps,
                NonPadCount(loc.fprop_input_paddings), p.eos_id, lm_w)
          /\ events' = events \o <<"beam_search", "lm", "pad_state">>
          /\ pc' = "searched"
          /\ UNCHANGED error
  /\ UNCHANGED <<pax_layer_registry, p, input_batch, lm_w, loc, prng, metrics, calls, prev, predictions>>

\* Sampling perturbs the model's choice by the drawn seed.
SampleDecode ==
  /\ \/ pc = "padded"
     \/ pc = "primed" /\ ~PadsInDecode(p)
  /\ Branch(p.kind) = "sample_decode"
  /\ invoked' = Append(invoked,
        SearchCall("sample_decode", loc.input_ids, loc.input_paddings,
                   [seq_len |-> loc.seqlen,
                    transform_decode_state_fn |-> TRUE,
                    lazy_broadcast_prefix_fn |-> p.lazy_prefix_broadcast,
                    fprop_for_prefix |-> p.fprop_for_prefix,
                    max_prefix_len |-> loc.max_prefix_len,
                    max_decode_steps |-> p.max_decode_steps,
                    prefix_lengths |-> loc.prefix_lengths,
                    eos_id |-> p.eos_id,
                    suffix_ids |-> loc.suffix,
                    suffix_lengths |-> loc.suffix_lengths]))
  /\ \E seed \in 0..(NumSeeds - 1) :
       result' = DecodeLoop(loc.input_ids, loc.input_paddings, loc.seqlen,
                            p.fprop_for_prefix, loc.max_prefix_len,
                            p.max_decode_steps, loc.prefix_lengths, p.eos_id,
                            lm_w + seed)
  /\ events' = Append(events, "sample_decode")
  /\ pc' = "searched"
  /\ UNCHANGED <<pax_layer_registry, p, input_batch, lm_w, loc, cache, prng, metrics, error, calls,
                 prev, predictions>>

\* Mutant of GreedyDecode: max_decode_steps is not handed to the search.
GreedyDecodeNoStepLimit ==
  /\ pc = "padded"
  /\ Branch(p.kind) = "greedy_decode"
  /\ invoked' = Append(invoked,
        SearchCall("greedy_decode", loc.input_ids, loc.input_paddings,
                   [seq_len |-> loc.seqlen,
                    fprop_for_prefix |-> p.fprop_for_prefix,
                    max_prefix_len |-> loc.max_prefix_len,
                    max_decode_steps |-> None,
                    prefix_lengths |-> loc.prefix_lengths,
                    eos_id |-> p.eos_id]))
  /\ result' = DecodeLoop(loc.input_ids, loc.input_paddings, loc.seqlen,
                          FALSE, loc.max_prefix_len,
                          None, loc.prefix_lengths, p.eos_id, lm_w)
  /\ events' = Append(events, "greedy_decode")
  /\ pc' = "searched"
  /\ UNCHANGED <<pax_layer_registry, p, input_batch, lm_w, loc, cache, prng, metrics, error, calls,
                 prev, predictions>>

GreedyDecode ==
  /\ pc = "padded"
  /\ Branch(p.kind) = "greedy_decode"
  /\ invoked' = Append(invoked,
        SearchCall("greedy_decode", loc.input_ids, loc.input_paddings,
                   [seq_len |-> loc.seqlen,
                    fprop_for_prefix |-> p.fprop_for_prefix,
                    max_prefix_len |-> loc.max_prefix_len,
                    max_decode_steps |-> p.max_decode_steps,
                    prefix_lengths |-> loc.prefix_lengths,
                    eos_id |-> p.eos_id]))
  /\ result' = DecodeLoop(loc.input_ids, loc.input_paddings, loc.seqlen,
                          p.fprop_for_prefix, loc.max_prefix_len,
                          p.max_decode_steps, loc.prefix_lengths, p.eos_id, lm_w)
  /\ events' = Append(events, "greedy_decode")
  /\ pc' = "searched"
  /\ UNCHANGED <<pax_layer_registry, p, input_batch, lm_w, loc, cache, prng, metrics, error, calls,
                 prev, predictions>>

\* The fallback of the isinstance chain.
Unimplemented ==
  /\ pc = "dispatch"
  /\ Branch(p.kind) = "unimplemented"
  /\ Raise("NotImplementedError")
  /\ UNCHANGED <<pax_layer_registry, p, input_batch, lm_w, loc, cache, prng, invoked, result,
                 metrics, calls, prev, predictions>>

\* num_decoded of the returned metrics.
NumDecoded(res, size) ==
  IF Has(res, "eval_sample_weights") THEN SumSeq(res.eval_sample_weights)
  ELSE size

\* result.update(input_batch), the metrics and the return.
Finish ==
  /\ pc = "searched"
  /\ LET res == Update(result, input_batch) IN
     /\ result' = res
     /\ metrics' = [num_decoded |-> <<NumDecoded(res, Shape0(res.ids)), 1>>]
  /\ events' = Append(events, "return")
  /\ pc' = "done"
  /\ UNCHANGED <<pax_layer_registry, p, input_batch, lm_w, loc, cache, prng, invoked, error, calls,
                 prev, predictions>>

(* --------------------------- specification ----------------------------- *)
Idle ==
  /\ pc = "start"
  /\ loc = EmptyMap
  /\ cache = NoCache
  /\ prng = 0
  /\ events = << >>
  /\ invoked = << >>
  /\ result = EmptyMap
  /\ metrics = EmptyMap
  /\ error = "none"
  /\ calls = 1
  /\ prev = EmptyMap
  /\ predictions = EmptyMap
  /\ pax_layer_registry = EmptyMap

Init ==
  /\ p \in DecoderConfigs
  /\ input_batch \in LmBatches
  /\ lm_w \in 0..(NumWeights - 1)
  /\ Idle

Next ==
  \/ CheckConfig
  \/ SetPrefixLengths
  \/ Prepare
  \/ InitCacheStates
  \/ PadToFullLength
  \/ FlatBeamSearch
  \/ BeamSearch
  \/ SampleDecode
  \/ GreedyDecode
  \/ Unimplemented
  \/ Finish

Spec == Init /\ [][Next]_vars

(* ------------------------- repeated decode calls ------------------------ *)
\* The caller decodes the same batch again: the previous call's outcome is
\* kept for comparison, the call-local state is fresh, the PRNG stream goes on.
Again ==
  /\ pc \in {"done", "failed"}
  /\ calls < MaxCalls
  /\ prev' = [result |-> result, metrics |-> metrics, error |-> error]
  /\ calls' = calls + 1
  /\ pc' = "start"
  /\ loc' = EmptyMap
  /\ cache' = NoCache
  /\ events' = << >>
  /\ invoked' = << >>
  /\ result' = EmptyMap
  /\ metrics' = EmptyMap
  /\ error' = "none"
  /\ UNCHANGED <<pax_layer_registry, p, input_batch, lm_w, prng, predictions>>

InitRepeat ==
  /\ p \in {c \in DecoderConfigs : c.kind \in {"Greedy", "Sample"} /\ c.seqlen > 0}
  /\ input_batch \in {bt \in LmBatches : Shape0(bt.ids) = 1}
  /\ lm_w \in 0..(NumWeights - 1)
  /\ Idle

NextRepeat ==
  \/ CheckConfig
  \/ SetPrefixLengths
  \/ Prepare
  \/ InitCacheStates
  \/ PadToFullLength
  \/ SampleDecode
  \/ GreedyDecode
  \/ Finish
  \/ Again

SpecRepeat == InitRepeat /\ [][NextRepeat]_vars

(* ------------------------------ claims --------------------------------- *)
C1_Strategy ==
  [FlatBeam |-> "flat_beam_search", Beam |-> "beam_search",
   Sample |-> "sample_decode", Greedy |-> "greedy_decode"]

C1_ValidConfig ==
  /\ p.kind # "NotDecoder"
  /\ p.seqlen > 0
  /\ p.fprop_for_prefix => ~IsNone(p.max_decode_steps)
  /\ p.kind = "Beam" => p.fprop_for_prefix

\* C1: a decode call with a valid configuration invokes exactly one search
\* strategy, the one of the decoder's variant; a valid configuration of no
\* known variant fails with NotImplementedError and invokes no strategy; no
\* call ever invokes two strategies or one of another variant.
C1_OneMatchingStrategy ==
  /\ Len(invoked) <= 1
  /\ Len(invoked) = 1 =>
       p.kind \in Variants /\ invoked[1].fn = C1_Strategy[p.kind]
  /\ (C1_ValidConfig /\ pc \in {"done", "failed"}) =>
       IF p.kind \in Variants
       THEN pc = "done" /\ Len(invoked) = 1
       ELSE error = "NotImplementedError" /\ invoked = << >>

C1_Witness ==
  /\ pc = "done"
  /\ p.kind = "FlatBeam"
  /\ Len(invoked) = 1
  /\ invoked[1].fn = "flat_beam_search"

C2_ConfigError ==
  \/ p.kind = "NotDecoder"
  \/ p.seqlen <= 0
  \/ p.fprop_for_prefix /\ IsNone(p.max_decode_steps)

C2_NoResult ==
  /\ cache = NoCache
  /\ invoked = << >>
  /\ result = EmptyMap
  /\ metrics = EmptyMap

\* C2 as stated: a configuration error is raised before any effect of the
\* call: no model call, no DecodeState, no PRNG key consumed, nothing returned.
C2_Original ==
  (C2_ConfigError /\ pc = "failed") =>
     error = "ValueError" /\ events = <<"raise">> /\ prng = 0 /\ C2_NoResult

\* C2 amended: every configuration error is raised as ValueError before the
\* model is invoked, before a DecodeState exists and before anything is
\* returned, and a call with such a configuration never gets further; the
\* type and seqlen errors precede every effect, the max_decode_steps error
\* is preceded only by the draw of the prefix lengths (one PRNG key) when the
\* batch supplies none.
C2_RaisedBeforeModel ==
  C2_ConfigError =>
     /\ pc \in {"start", "prefix_lengths", "prepare", "failed"}
     /\ C2_NoResult
     /\ pc = "failed" => error = "ValueError"
     /\ (p.kind = "NotDecoder" \/ p.seqlen <= 0) =>
           /\ pc \in {"start", "failed"}
           /\ prng = 0
           /\ pc = "failed" => events = <<"raise">>
     /\ (pc = "failed" /\ p.kind # "NotDecoder" /\ p.seqlen > 0) =>
           IF Has(input_batch, "prefix_lengths")
           THEN events = <<"raise">> /\ prng = 0
           ELSE events = <<"prng", "raise">> /\ prng = 1

C2_Witness ==
  /\ pc = "failed"
  /\ error = "ValueError"
  /\ events = <<"prng", "raise">>
  /\ p.fprop_for_prefix
  /\ IsNone(p.max_decode_steps)

C3_TwoGreedyCalls ==
  /\ p.kind = "Greedy"
  /\ calls = 2
  /\ pc = "done"
  /\ prev.error = "none"

\* C3 as stated: two greedy decode calls on the same batch and model return
\* identical output_ids and prefix_lengths, with or without prefix_lengths in
\* the batch.
C3_Original ==
  C3_TwoGreedyCalls =>
     /\ result.output_ids = prev.result.output_ids
     /\ result.prefix_lengths = prev.result.prefix_lengths

\* C3 amended: two greedy decode calls on the same batch and model return
\* identical prefix_lengths when the batch supplies them, and identical
\* output_ids and decode_lengths whenever their prefix lengths agree.
C3_DeterministicGivenPrefix ==
  C3_TwoGreedyCalls =>
     /\ Has(input_batch, "prefix_lengths") =>
           result.prefix_lengths = prev.result.prefix_lengths
     /\ result.prefix_lengths = prev.result.prefix_lengths =>
           /\ result.output_ids = prev.result.output_ids
           /\ result.decode_lengths = prev.result.decode_lengths

C3_Witness ==
  /\ C3_TwoGreedyCalls
  /\ Has(input_batch, "prefix_lengths")
  /\ result.decode_lengths[1] > result.prefix_lengths[1]
  /\ result.output_ids = prev.result.output_ids

(* ------------------ greedy decoding of wide batches -------------------- *)
\* The two rows of the end-to-end scenario: ids [[5,6,7,0,0],[5,6,0,0,0]].
ScenarioIds == << <<5, 6, 7, 0, 0>>, <<5, 6, 0, 0, 0>> >>
ScenarioWidth == Len(ScenarioIds[1])

\* Batches as wide as the scenario: one row with or without prefix_lengths,
\* or two rows without.
WideBatches ==
  LET W == ScenarioWidth
      plain(B) == { [ids |-> [b \in 1..B |-> RowIds(n[b], W)],
                     paddings |-> [b \in 1..B |-> RowPaddings(n[b], W)]] :
                    n \in [1..B -> 0..W] }
  IN plain(1) \cup plain(Len(ScenarioIds))
     \cup UNION { { Update(bt, [prefix_lengths |-> pl]) : pl \in [1..1 -> 0..W] } :
                  bt \in plain(1) }

InitWide ==
  /\ p \in { [c EXCEPT !.seqlen = s, !.min_prefix_len = m] :
               <<c, s, m>> \in { c \in DecoderConfigs :
                                   /\ c.kind = "Greedy"
                                   /\ c.seqlen = 1
                                   /\ c.min_prefix_len = 0 }
                              \X {1, ScenarioWidth}
                              \X ((0..MaxMinPrefix) \cup {ScenarioWidth}) }
  /\ input_batch \in WideBatches
  /\ lm_w \in 0..(NumWeights - 1)
  /\ Idle

NextWide ==
  \/ CheckConfig
  \/ SetPrefixLengths
  \/ Prepare
  \/ InitCacheStates
  \/ PadToFullLength
  \/ GreedyDecode
  \/ Finish

SpecWide == InitWide /\ [][NextWide]_vars

(* ------------------------- claims, continued --------------------------- *)
C4_ExpectedLen ==
  IF p.fprop_for_prefix
  THEN Shape1(input_batch.ids) + Val(p.max_decode_steps)
  ELSE p.seqlen

C4_BufferWidths(n) ==
  \A b \in 1..Shape0(input_batch.ids) :
     Len(invoked[1].ids[b]) = n /\ Len(invoked[1].paddings[b]) = n

C4_OutputLength ==
  pc = "done" =>
     \A b \in 1..Shape0(input_batch.ids) : Len(result.output_ids[b]) = C4_ExpectedLen

C5_SeqLen ==
  IF p.fprop_for_prefix
  THEN Len(input_batch.ids[1]) + p.max_decode_steps[1]
  ELSE p.seqlen

\* C5 as stated: every row of every decode result has
\* prefix_length <= decode_length <= seqlen.
C5_Original ==
  pc = "done" =>
     \A b \in 1..Shape0(input_batch.ids) :
        /\ result.prefix_lengths[b] <= result.decode_lengths[b]
        /\ result.decode_lengths[b] <= C5_SeqLen

\* C5 amended: every row of a Greedy or Sample decode result (the strategies
\* that are handed the prefix lengths) has decode_length <= seqlen, and
\* prefix_length <= decode_length if its prefix length is at most the sequence
\* length of the call and the width of the batch's ids.
C5_LengthOrder ==
  (pc = "done" /\ p.kind \in {"Greedy", "Sample"}) =>
     \A b \in 1..Shape0(input_batch.ids) :
        /\ result.decode_lengths[b] <= C5_SeqLen
        /\ (result.prefix_lengths[b] <= C5_SeqLen
            /\ result.prefix_lengths[b] <= Shape1(input_batch.ids)) =>
              result.prefix_lengths[b] <= result.decode_lengths[b]

C5_Witness ==
  /\ pc = "done"
  /\ p.kind = "Greedy"
  /\ ~Has(input_batch, "prefix_lengths")
  /\ 0 < result.prefix_lengths[1]
  /\ result.prefix_lengths[1] < result.decode_lengths[1]
  /\ result.decode_lengths[1] < C5_SeqLen

C6_Drawn == ~Has(input_batch, "prefix_lengths") /\ Has(loc, "prefix_lengths")

C6_MaxVal(b) == Cardinality({i \in 1..Shape1(input_batch.ids) : input_batch.paddings[b][i] = 0})

\* C6: without prefix_lengths in the batch every row gets a prefix length
\* between min(maxval, min_prefix_len) and maxval, maxval being the row's
\* number of non-padding tokens; a row without such a token gets 0.
C6_PrefixRange ==
  C6_Drawn =>
     \A b \in 1..Shape0(input_batch.ids) :
        /\ loc.prefix_lengths[b] <= C6_MaxVal(b)
        /\ loc.prefix_lengths[b] >= C6_MaxVal(b) \/ loc.prefix_lengths[b] >= p.min_prefix_len
        /\ C6_MaxVal(b) = 0 => loc.prefix_lengths[b] = 0

\* Both bounds are drawn: row 1 at the lower bound, row 2 at the upper bound
\* of the same non-degenerate range.
C6_Witness ==
  /\ C6_Drawn
  /\ Shape0(input_batch.ids) = 2
  /\ p.min_prefix_len = 1
  /\ C6_MaxVal(1) = 2 /\ C6_MaxVal(2) = 2
  /\ loc.prefix_lengths = <<1, 2>>

\* C7: under fprop_for_prefix, with M the width of the batch's ids, the
\* segment ids of a row with prefix length L are 0 exactly on positions
\* 0..M-L-1 and 1 exactly on positions M-L..M-1, and start_time_step is M-1.
C7_RightAlignedSegments ==
  (p.fprop_for_prefix /\ Has(loc, "fprop_segment_ids")) =>
     LET M == Shape1(input_batch.ids) IN
     /\ loc.max_prefix_len = M
     /\ loc.start_time_step = M - 1
     /\ \A b \in 1..Shape0(input_batch.ids) :
          LET L == loc.prefix_lengths[b]
              seg == loc.fprop_segment_ids[1][b]
          IN /\ Len(seg) = M
             /\ \A i \in 0..(M - 1) :
                  /\ seg[i + 1] = 0 <=> i \in 0..(M - L - 1)
                  /\ seg[i + 1] = 1 <=> i \in (M - L)..(M - 1)

\* The scenario of the claim: L = 3, M = 5.
C7_Witness ==
  /\ p.fprop_for_prefix
  /\ Has(loc, "fprop_segment_ids")
  /\ Shape1(input_batch.ids) = 5
  /\ loc.prefix_lengths = <<3>>
  /\ loc.fprop_segment_ids[1] = << <<0, 0, 1, 1, 1>> >>
  /\ loc.start_time_step = 4

C8_SearchNames == {"flat_beam_search", "beam_search", "sample_decode", "greedy_decode"}

C8_SearchAt ==
  CHOOSE i \in 1..Len(events) :
     events[i] \in C8_SearchNames /\ \A j \in 1..(i - 1) : events[j] \notin C8_SearchNames

C8_Before(e) == Cardinality({j \in 1..(C8_SearchAt - 1) : events[j] = e})

C8_FullLength ==
  IF p.fprop_for_prefix
  THEN Shape1(input_batch.ids) + Val(p.max_decode_steps)
  ELSE 1 + (p.seqlen - 1)

C8_Lazy == p.kind = "Sample" /\ p.lazy_prefix_broadcast

\* C8 as stated: before the search of every strategy but lazy-broadcast
\* sampling starts, decode has invoked the model exactly once and padded the
\* cache to the full sequence length; lazy-broadcast sampling is not padded.
C8_Original ==
  Len(invoked) = 1 =>
     IF C8_Lazy
     THEN C8_Before("pad_state") = 0
     ELSE /\ C8_Before("lm") = 1
          /\ C8_Before("pad_state") = 1
          /\ cache.time = C8_FullLength

\* C8 amended: for FlatBeam, Greedy and Sample without lazy_prefix_broadcast
\* decode invokes the model exactly once and then pads the cache to the full
\* sequence length before the search starts; with lazy_prefix_broadcast it
\* invokes the model once and does not pad; for Beam it neither invokes the
\* model nor pads, but hands fprop_fn and transform_decode_state_fn to
\* beam_search.
C8_PrimeThenPad ==
  Len(invoked) = 1 =>
     IF p.kind = "Beam"
     THEN /\ C8_Before("lm") = 0
          /\ C8_Before("pad_state") = 0
          /\ invoked[1].fprop_fn
          /\ invoked[1].transform_decode_state_fn
     ELSE IF C8_Lazy
     THEN /\ C8_Before("lm") = 1
          /\ C8_Before("pad_state") = 0
          /\ cache.time = Shape1(loc.fprop_input_ids)
     ELSE /\ C8_Before("lm") = 1
          /\ C8_Before("pad_state") = 1
          /\ events[C8_SearchAt - 2] = "lm"
          /\ events[C8_SearchAt - 1] = "pad_state"
          /\ cache.time = C8_FullLength

C8_Witness ==
  /\ pc = "done"
  /\ p.kind = "Greedy"
  /\ p.fprop_for_prefix
  /\ Shape1(input_batch.ids) = 2
  /\ p.max_decode_steps = Some(2)
  /\ cache.time = 4

(* ------------------------ SequenceModel.decode ------------------------- *)
\* Batches with src and tgt sub-batches of one shape, with and without a
\* top-level prefix_lengths field.
SeqBatches ==
  LET uniform(bt) == \A b \in 1..Len(bt.ids) : bt.ids[b] = bt.ids[1]
      plain == UNION { { [src |-> s, tgt |-> t] :
                         s \in { x \in PlainBatches :
                                   /\ Shape0(x.ids) = Shape0(t.ids)
                                   /\ Shape1(x.ids) = Shape1(t.ids)
                                   /\ uniform(x) } } :
                       t \in PlainBatches }
  IN plain \cup
     UNION { { Update(bt, [prefix_lengths |-> pl]) :
               pl \in [1..Shape0(bt.tgt.ids) -> 0..1] } : bt \in plain }

SeqCheckConfig ==
  /\ pc = "start"
  /\ IF p.seqlen <= 0 THEN Raise("ValueError")
     ELSE /\ pc' = "seq_model"
          /\ UNCHANGED <<error, events>>
  /\ UNCHANGED <<pax_layer_registry, p, input_batch, lm_w, loc, cache, prng, invoked, result,
                 metrics, calls, prev, predictions>>

\* self.model(inputs=src.ids, ..., targets=tgt.ids, ...).
SeqRunModel ==
  /\ pc = "seq_model"
  /\ loc' = Update(loc, [batch_size |-> Shape0(input_batch.tgt.ids)])
  /\ cache' = PrimeCache(input_batch.tgt.ids)
  /\ events' = Append(events, "model")
  /\ pc' = "seq_search"
  /\ UNCHANGED <<pax_layer_registry, p, input_batch, lm_w, prng, invoked, result, metrics, error,
                 calls, prev, predictions>>

\* Mutant of SeqGreedyDecode: the search is chosen by the decoder's variant.
SeqDecodeByVariant ==
  /\ pc = "seq_search"
  /\ IF Branch(p.kind) = "unimplemented"
     THEN /\ Raise("NotImplementedError")
          /\ UNCHANGED <<invoked, result>>
     ELSE /\ invoked' = Append(invoked,
                SearchCall(Branch(p.kind), input_batch.tgt.ids,
                           input_batch.tgt.paddings,
                           [seq_len |-> p.seqlen, eos_id |-> p.eos_id]))
          /\ result' = DecodeLoop(input_batch.tgt.ids, input_batch.tgt.paddings,
                                  p.seqlen, FALSE, Shape1(input_batch.tgt.ids), None,
                                  Zeros(Shape0(input_batch.tgt.ids)), p.eos_id, lm_w)
          /\ events' = Append(events, Branch(p.kind))
          /\ pc' = "seq_searched"
          /\ UNCHANGED error
  /\ UNCHANGED <<pax_layer_registry, p, input_batch, lm_w, loc, cache, prng, metrics, calls,
                 prev, predictions>>

\* greedy_decode with its defaults: no fprop_for_prefix, no max_decode_steps,
\* no prefix_lengths (every row starts from an empty prefix).
SeqGreedyDecode ==
  /\ pc = "seq_search"
  /\ invoked' = Append(invoked,
        SearchCall("greedy_decode", input_batch.tgt.ids, input_batch.tgt.paddings,
                   [seq_len |-> p.seqlen, eos_id |-> p.eos_id]))
  /\ result' = DecodeLoop(input_batch.tgt.ids, input_batch.tgt.paddings, p.seqlen,
                          FALSE, Shape1(input_batch.tgt.ids), None,
                          Zeros(Shape0(input_batch.tgt.ids)), p.eos_id, lm_w)
  /\ events' = Append(events, "greedy_decode")
  /\ pc' = "seq_searched"
  /\ UNCHANGED <<pax_layer_registry, p, input_batch, lm_w, loc, cache, prng, metrics, error, calls,
                 prev, predictions>>

\* Mutant of SeqFinish: the del of prefix_lengths is missing.
SeqFinishKeepsPrefixLengths ==
  /\ pc = "seq_searched"
  /\ LET res == Update(result, input_batch) IN
     /\ result' = res
     /\ metrics' = [num_decoded |-> <<NumDecoded(res, loc.batch_size), 1>>]
  /\ events' = Append(events, "return")
  /\ pc' = "done"
  /\ UNCHANGED <<pax_layer_registry, p, input_batch, lm_w, loc, cache, prng, invoked, error, calls,
                 prev, predictions>>

\* del result.prefix_lengths, result.update(input_batch), metrics, return.
SeqFinish ==
  /\ pc = "seq_searched"
  /\ LET res == Update(Del(result, "prefix_lengths"), input_batch) IN
     /\ result' = res
     /\ metrics' = [num_decoded |-> <<NumDecoded(res, loc.batch_size), 1>>]
  /\ events' = Append(events, "return")
  /\ pc' = "done"
  /\ UNCHANGED <<pax_layer_registry, p, input_batch, lm_w, loc, cache, prng, invoked, error, calls,
                 prev, predictions>>

InitSeq ==
  /\ p \in { c \in DecoderConfigs :
               /\ c.kind \in DecoderKinds
               /\ c.min_prefix_len = 0
               /\ IsNone(c.max_decode_steps) }
  /\ input_batch \in SeqBatches
  /\ lm_w \in 0..(NumWeights - 1)
  /\ Idle

NextSeq ==
  \/ SeqCheckConfig
  \/ SeqRunModel
  \/ SeqGreedyDecode
  \/ SeqFinish

SpecSeq == InitSeq /\ [][NextSeq]_vars

\* C10 as stated: the result of SequenceModel.decode never has a
\* prefix_lengths field, whatever the batch carries.
C10_Original ==
  (pc = "done" /\ Has(input_batch, "tgt")) => ~Has(result, "prefix_lengths")

\* C10 amended: the result of SequenceModel.decode has a prefix_lengths field
\* exactly when the input batch carries one at its top level, and then it is
\* the batch's; the prefix_lengths of greedy_decode is always dropped.
C10_PrefixLengthsOnlyFromBatch ==
  (pc = "done" /\ Has(input_batch, "tgt")) =>
     /\ Has(result, "prefix_lengths") <=> Has(input_batch, "prefix_lengths")
     /\ Has(result, "prefix_lengths") =>
           result.prefix_lengths = input_batch.prefix_lengths
     /\ Has(result, "output_ids") /\ Has(result, "src") /\ Has(result, "tgt")

C10_Witness ==
  /\ pc = "done"
  /\ Has(input_batch, "tgt")
  /\ ~Has(input_batch, "prefix_lengths")
  /\ ~Has(result, "prefix_lengths")
  /\ Len(invoked) = 1
  /\ Has(result, "decode_lengths")

(* ---------------- compute_predictions and compute_loss ----------------- *)
LabelSet == {1, 2}

\* One sequence of T tokens with labels, with paddings or segment_ids, and
\* with or without explicit weights.
FlatLossBatches ==
  UNION { LET bits == [1..T -> {0, 1}]
              base == { [ids |-> l, labels |-> l, paddings |-> pd] :
                          <<l, pd>> \in [1..T -> LabelSet] \X bits }
                      \cup
                      { [ids |-> l, labels |-> l, segment_ids |-> sg, segment_pos |-> Zeros(T)] :
                          <<l, sg>> \in [1..T -> LabelSet] \X bits }
          IN base \cup { Update(bt, [weights |-> wt]) : <<bt, wt>> \in base \X bits } :
          T \in 1..MaxWidth }

LmLossBatches == FlatLossBatches \cup { [tgt |-> bt] : bt \in FlatLossBatches }

SeqLossBatches ==
  { [src |-> [ids |-> bt.ids, paddings |-> Zeros(Len(bt.ids))], tgt |-> bt] :
      bt \in { x \in FlatLossBatches : Has(x, "weights") /\ Has(x, "paddings") } }

\* The softmax output of the underlying model for the given labels: the
\* argmax ids are the model's, total_weight is the sum of the class weights.
Forward(class_ids, class_weights, argmax) ==
  [per_example_argmax |-> argmax,
   total_weight |-> SumSeq(class_weights),
   total_loss |-> 0, avg_xent |-> 0, aux_loss |-> 0, per_sequence_xent |-> 0]

\* Mutant of LmComputePredictions: the weights are computed but not stored in
\* the batch.
LmComputePredictionsNoStore ==
  /\ pc = "start"
  /\ p.task = "LanguageModel"
  /\ LET nested == Has(input_batch, "tgt")
         bt == IF nested THEN input_batch.tgt ELSE input_batch
         T == Len(bt.labels)
         paddings == IF Has(bt, "paddings") THEN bt.paddings
                     ELSE [i \in 1..T |-> IF bt.segment_ids[i] = 0 THEN 1 ELSE 0]
         weights == IF Has(bt, "weights") THEN bt.weights
                    ELSE [i \in 1..T |-> 1 - paddings[i]]
     IN \E argmax \in [1..T -> LabelSet] :
             predictions' = Forward(bt.labels, weights, argmax)
  /\ pc' = "predicted"
  /\ UNCHANGED <<pax_layer_registry, p, input_batch, lm_w, loc, cache, prng, events, invoked,
                 result, metrics, error, calls, prev>>

LmComputePredictions ==
  /\ pc = "start"
  /\ p.task = "LanguageModel"
  /\ LET nested == Has(input_batch, "tgt")
         bt == IF nested THEN input_batch.tgt ELSE input_batch
         T == Len(bt.labels)
         paddings == IF Has(bt, "paddings") THEN bt.paddings
                     ELSE [i \in 1..T |-> IF bt.segment_ids[i] = 0 THEN 1 ELSE 0]
         weights == IF Has(bt, "weights") THEN bt.weights
                    ELSE [i \in 1..T |-> 1 - paddings[i]]
         stored == IF Has(bt, "weights") THEN bt ELSE Update(bt, [weights |-> weights])
     IN /\ input_batch' = IF nested THEN Update(input_batch, [tgt |-> stored]) ELSE stored
        /\ \E argmax \in [1..T -> LabelSet] :
             predictions' = Forward(bt.labels, weights, argmax)
  /\ pc' = "predicted"
  /\ UNCHANGED <<pax_layer_registry, p, lm_w, loc, cache, prng, events, invoked, result, metrics,
                 error, calls, prev>>

SeqComputePredictions ==
  /\ pc = "start"
  /\ p.task = "SequenceModel"
  /\ \E argmax \in [1..Len(input_batch.tgt.labels) -> LabelSet] :
       predictions' = Forward(input_batch.tgt.labels, input_batch.tgt.weights, argmax)
  /\ pc' = "predicted"
  /\ UNCHANGED <<pax_layer_registry, p, input_batch, lm_w, loc, cache, prng, events, invoked,
                 result, metrics, error, calls, prev>>

\* _compute_xent_loss_helper; mean_acc is the fraction num / den.
XentLossHelper(preds, batch, return_predictions) ==
  LET nested == Has(batch, "tgt")
      labels == IF nested THEN batch.tgt.labels ELSE batch.labels
      T == Len(labels)
      weights == IF nested
                 THEN IF Has(batch.tgt, "paddings")
                      THEN [i \in 1..T |-> 1 - batch.tgt.paddings[i]]
                      ELSE [i \in 1..T |-> IF batch.tgt.segment_ids[i] # 0 THEN 1 ELSE 0]
                 ELSE batch.weights
      predicted_labels == preds.per_example_argmax
      num_preds == preds.total_weight
      mean_acc == [num |-> SumSeq([i \in 1..T |->
                                    IF labels[i] = predicted_labels[i] THEN weights[i] ELSE 0]),
                   den |-> Max(num_preds, 1)]
      metric_weight == num_preds
      avg_xent_weight == IF Has(preds, "avg_xent_weight") THEN preds.avg_xent_weight
                         ELSE metric_weight
  IN [metrics |->
        [total_loss |-> <<preds.total_loss, metric_weight>>,
         avg_xent |-> <<preds.avg_xent, avg_xent_weight>>,
         aux_loss |-> <<preds.aux_loss, 1>>,
         log_pplx |-> <<preds.avg_xent, avg_xent_weight>>,
         fraction_of_correct_next_step_preds |-> <<mean_acc, metric_weight>>,
         num_predictions |-> <<num_preds, 1>>],
      per_example_output |->
        IF return_predictions THEN preds
        ELSE [labels |-> labels, scores |-> preds.per_sequence_xent]]

\* LanguageModel.compute_loss hands the helper the whole batch,
\* SequenceModel.compute_loss hands it input_batch.tgt.
ComputeLoss ==
  /\ pc = "predicted"
  /\ LET r == XentLossHelper(predictions,
                             IF p.task = "SequenceModel" THEN input_batch.tgt
                             ELSE input_batch,
                             p.return_predictions)
     IN /\ metrics' = r.metrics
        /\ result' = r.per_example_output
  /\ pc' = "loss_done"
  /\ UNCHANGED <<pax_layer_registry, p, input_batch, lm_w, loc, cache, prng, events, invoked,
                 error, calls, prev, predictions>>

InitLoss ==
  /\ p \in [task : {"LanguageModel", "SequenceModel"}, return_predictions : BOOLEAN]
  /\ input_batch \in IF p.task = "LanguageModel" THEN LmLossBatches ELSE SeqLossBatches
  /\ lm_w = 0
  /\ Idle

NextLoss ==
  \/ LmComputePredictions
  \/ SeqComputePredictions
  \/ ComputeLoss

SpecLoss == InitLoss /\ [][NextLoss]_vars

\* C9: the mean accuracy reported by _compute_xent_loss_helper has a non-zero
\* denominator, lies in [0, 1] when num_preds > 0 and is 0 when
\* num_preds = 0, for every label/weight source the helper selects.
C9_MeanAccInUnitRange ==
  pc = "loss_done" =>
     LET mean_acc == metrics.fraction_of_correct_next_step_preds[1]
         num_preds == predictions.total_weight
     IN /\ mean_acc.den # 0
        /\ num_preds > 0 => 0 <= mean_acc.num /\ mean_acc.num <= mean_acc.den
        /\ num_preds = 0 => mean_acc.num = 0

(* ------------------------- claims, continued --------------------------- *)
C11_Returned == Has(input_batch, "tgt") /\ Has(p, "kind") /\ pc \in {"done", "failed"}

\* C11 as stated: SequenceModel.decode invokes the search strategy of its
\* decoder's variant and fails with NotImplementedError for any other variant.
C11_Original ==
  (C11_Returned /\ p.seqlen > 0) =>
     IF p.kind \in Variants
     THEN Len(invoked) = 1 /\ invoked[1].fn = C1_Strategy[p.kind]
     ELSE error = "NotImplementedError" /\ invoked = << >>

\* C11 amended: SequenceModel.decode with seqlen > 0 always returns after
\* invoking greedy_decode exactly once, whatever the decoder's variant, and
\* never fails with NotImplementedError; with seqlen <= 0 it fails with
\* ValueError and invokes nothing.
C11_AlwaysGreedy ==
  /\ Has(input_batch, "tgt") /\ Has(p, "kind") => error # "NotImplementedError"
  /\ C11_Returned =>
       IF p.seqlen > 0
       THEN /\ pc = "done"
            /\ Len(invoked) = 1
            /\ invoked[1].fn = "greedy_decode"
            /\ invoked[1].seq_len = p.seqlen
       ELSE error = "ValueError" /\ invoked = << >>

C11_Witness ==
  /\ C11_Returned
  /\ pc = "done"
  /\ p.kind = "Beam"
  /\ Len(invoked) = 1
  /\ invoked[1].fn = "greedy_decode"

(* ---------------- the caller's batch across every call ----------------- *)
\* One call of compute_predictions followed by compute_loss, or of decode, of
\* LanguageModel or SequenceModel; prev keeps the batch as the caller built it.
InitAll ==
  /\ \/ /\ p \in DecoderConfigs
        /\ input_batch \in { bt \in LmBatches : Shape0(bt.ids) = 1 }
        /\ lm_w \in 0..(NumWeights - 1)
     \/ /\ p \in { c \in DecoderConfigs : c.kind = "Greedy" /\ c.min_prefix_len = 0 }
        /\ input_batch \in { bt \in SeqBatches : Shape0(bt.tgt.ids) = 1 }
        /\ lm_w \in 0..(NumWeights - 1)
     \/ /\ p \in [task : {"LanguageModel", "SequenceModel"}, return_predictions : BOOLEAN]
        /\ input_batch \in IF p.task = "LanguageModel" THEN LmLossBatches
                           ELSE SeqLossBatches
        /\ lm_w = 0
  /\ pc = "start"
  /\ loc = EmptyMap
  /\ cache = NoCache
  /\ prng = 0
  /\ events = << >>
  /\ invoked = << >>
  /\ result = EmptyMap
  /\ metrics = EmptyMap
  /\ error = "none"
  /\ calls = 1
  /\ prev = [input_batch |-> input_batch]
  /\ predictions = EmptyMap
  /\ pax_layer_registry = EmptyMap

NextAll ==
  \/ Has(p, "task") /\ NextLoss
  \/ Has(p, "kind") /\ Has(input_batch, "src") /\ NextSeq
  \/ Has(p, "kind") /\ ~Has(input_batch, "src") /\ Next

SpecAll == InitAll /\ [][NextAll]_vars

\* The batch after LanguageModel.compute_predictions: a weights field of
\* 1 - paddings is stored in the batch (its tgt sub-batch when it has one)
\* when there is none.
C12_WithWeights(batch) ==
  LET nested == Has(batch, "tgt")
      bt == IF nested THEN batch.tgt ELSE batch
      T == Len(bt.labels)
      paddings == IF Has(bt, "paddings") THEN bt.paddings
                  ELSE [i \in 1..T |-> IF bt.segment_ids[i] = 0 THEN 1 ELSE 0]
      stored == IF Has(bt, "weights") THEN bt
                ELSE Update(bt, [weights |-> [i \in 1..T |-> 1 - paddings[i]]])
  IN IF nested THEN Update(batch, [tgt |-> stored]) ELSE stored

\* C12 as stated: after any of compute_predictions, compute_loss and decode
\* the caller's batch has the fields and values it had before the call.
C12_Original == input_batch = prev.input_batch

\* C12 amended: decode of LanguageModel and SequenceModel and
\* compute_predictions and compute_loss of SequenceModel leave the caller's
\* batch as it was; LanguageModel.compute_predictions adds a weights field
\* equal to 1 - paddings to the batch (to its tgt sub-batch when it has one)
\* when the batch carries none and changes nothing else, and compute_loss
\* changes nothing further.
C12_OnlyWeightsAdded ==
  IF Has(p, "task") /\ p.task = "LanguageModel" /\ pc \in {"predicted", "loss_done"}
  THEN input_batch = C12_WithWeights(prev.input_batch)
  ELSE input_batch = prev.input_batch

C12_Witness ==
  /\ Has(p, "task")
  /\ p.task = "LanguageModel"
  /\ pc = "loss_done"
  /\ Has(prev.input_batch, "tgt")
  /\ ~Has(prev.input_batch.tgt, "weights")
  /\ Has(input_batch.tgt, "weights")
  /\ DOMAIN input_batch.tgt = DOMAIN prev.input_batch.tgt \cup {"weights"}

(* -------------------------- process_decode_out ------------------------- *)
NumSamples == 2

\* input_obj.ids_to_strings: row b of the batch is rendered from its first
\* lengths[b] ids.
IdsToStrings(ids, lengths) ==
  [b \in 1..Len(ids) |-> SubSeq(ids[b], 1, Min(Max(lengths[b], 0), Len(ids[b])))]

\* a[:, 0] and a[:, 0, :].
FirstSample(a) == [b \in 1..Len(a) |-> a[b][1]]

\* row[lo:hi] of Python.
Slice(row, lo, hi) == SubSeq(row, Min(lo, Len(row)) + 1, Min(hi, Len(row)))

\* Sample s of a row with n decoded tokens.
SampleRow(n, s, W) == [i \in 1..W |-> IF i <= n THEN 4 + i + 10 * (s - 1) ELSE 0]

\* The per-sample fields of a decode output with B rows of width W: row b has
\* decode length dl[b] and prefix (original) length pl[b] in its first
\* sample; the second sample decodes W - dl[b] tokens.
SampledFields(B, W, dl, pl) ==
  LET len(b, s) == IF s = 1 THEN dl[b] ELSE W - dl[b]
  IN [output_ids |-> [b \in 1..B |-> [s \in 1..NumSamples |-> SampleRow(len(b, s), s, W)]],
      decode_lengths |-> [b \in 1..B |-> [s \in 1..NumSamples |-> len(b, s)]],
      original_lengths |-> [b \in 1..B |-> [s \in 1..NumSamples |-> pl[b]]],
      logprobs |-> [b \in 1..B |-> [s \in 1..NumSamples |-> [i \in 1..W |-> 0 - s]]]]

WithEvalSampleWeights(outs) ==
  outs \cup UNION { { Update(o, [eval_sample_weights |-> ew]) :
                      ew \in [1..Len(o.output_ids) -> {0, 1}] } : o \in outs }

LmDecodeOuts ==
  WithEvalSampleWeights(
    UNION { { Update(SampledFields(B, W, dl, pl),
                [ids |-> [b \in 1..B |-> RowIds(pl[b], W)],
                 paddings |-> [b \in 1..B |-> RowPaddings(pl[b], W)],
                 prefix_ids |-> [b \in 1..B |-> [s \in 1..NumSamples |-> RowIds(pl[b], W)]],
                 prefix_lengths |-> [b \in 1..B |-> [s \in 1..NumSamples |-> pl[b]]]]) :
              <<dl, pl>> \in [1..B -> 0..W] \X [1..B -> 0..W] } :
            <<B, W>> \in (1..MaxBatch) \X {MaxWidth} })

SeqDecodeOuts ==
  WithEvalSampleWeights(
    UNION { { Update(SampledFields(B, W, dl, pl),
                [src |-> [ids |-> [b \in 1..B |-> RowIds(W, W)],
                          paddings |-> [b \in 1..B |-> RowPaddings(W, W)]],
                 tgt |-> [ids |-> [b \in 1..B |-> RowIds(pl[b], W)],
                          paddings |-> [b \in 1..B |-> RowPaddings(pl[b], W)]]]) :
              <<dl, pl>> \in [1..B -> 0..W] \X [1..B -> 0..W] } :
            <<B, W>> \in (1..MaxBatch) \X {MaxWidth} })

\* Mutant of Skips: no row is skipped.
SkipsNever(decode_out, idx) == FALSE

\* The test that makes the loop `continue`.
Skips(decode_out, idx) ==
  Has(decode_out, "eval_sample_weights") /\ decode_out.eval_sample_weights[idx] = 0

\* The loop over the rows: ret.append(...) for every row that is not skipped.
RECURSIVE AppendRows(_, _, _, _)
AppendRows(decode_out, records, idx, ret) ==
  IF idx > Len(records) THEN ret
  ELSE IF Skips(decode_out, idx)
       THEN AppendRows(decode_out, records, idx + 1, ret)
       ELSE AppendRows(decode_out, records, idx + 1, Append(ret, records[idx]))

\* jnp.average(decode_lengths) as the fraction num / den.
Average(a) == [num |-> SumSeq(a), den |-> Len(a)]

LmProcessDecodeOut ==
  /\ pc = "start"
  /\ p.task = "LanguageModel"
  /\ LET decode_out ==
           Update(result,
                  [output_ids |-> FirstSample(result.output_ids),
                   decode_lengths |-> FirstSample(result.decode_lengths),
                   original_lengths |-> FirstSample(result.original_lengths),
                   prefix_ids |-> FirstSample(result.prefix_ids),
                   prefix_lengths |-> FirstSample(result.prefix_lengths),
                   logprobs |-> FirstSample(result.logprobs)])
         decoded_strs == IdsToStrings(decode_out.output_ids, decode_out.decode_lengths)
         original_strs == IdsToStrings(decode_out.ids, decode_out.original_lengths)
         prefix_strs == IdsToStrings(decode_out.prefix_ids, decode_out.prefix_lengths)
         record(idx) ==
           LET prefix_length == decode_out.prefix_lengths[idx]
               decode_length == decode_out.decode_lengths[idx]
               decoded_ids == Slice(decode_out.output_ids[idx], prefix_length, decode_length)
           IN <<prefix_strs[idx],
                [prefix |-> prefix_strs[idx],
                 decoded |-> decoded_strs[idx],
                 original |-> original_strs[idx],
                 ids |-> decode_out.output_ids[idx],
                 decoded_ids |-> decoded_ids,
                 decoded_substr |->
                   IdsToStrings(<<decoded_ids>>, <<decode_length - prefix_length>>)[1],
                 logprobs |-> decode_out.logprobs[idx],
                 prefix_length |-> prefix_length,
                 decode_length |-> decode_length]>>
     IN /\ result' = decode_out
        /\ loc' = [ret |-> AppendRows(decode_out,
                                       [idx \in 1..Len(decoded_strs) |-> record(idx)],
                                       1, << >>)]
        /\ metrics' = [decoded_length |-> <<Average(decode_out.decode_lengths), 1>>]
  /\ pc' = "processed"
  /\ UNCHANGED <<pax_layer_registry, p, input_batch, lm_w, cache, prng, events, invoked, error,
                 calls, prev, predictions>>

SeqProcessDecodeOut ==
  /\ pc = "start"
  /\ p.task = "SequenceModel"
  /\ LET decode_out ==
           Update(result,
                  [output_ids |-> FirstSample(result.output_ids),
                   decode_lengths |-> FirstSample(result.decode_lengths),
                   original_lengths |-> FirstSample(result.original_lengths),
                   logprobs |-> FirstSample(result.logprobs)])
         decoded_strs == IdsToStrings(decode_out.output_ids, decode_out.decode_lengths)
         source_lengths == NonPadCount(decode_out.src.paddings)
         source_strs == IdsToStrings(decode_out.src.ids, source_lengths)
         target_strs == IdsToStrings(decode_out.tgt.ids, decode_out.original_lengths)
         record(idx) ==
           <<source_strs[idx],
             [source |-> source_strs[idx],
              decoded |-> decoded_strs[idx],
              target |-> target_strs[idx],
              ids |-> decode_out.output_ids[idx],
              logprobs |-> decode_out.logprobs[idx],
              decode_length |-> decode_out.decode_lengths[idx]]>>
     IN /\ result' = decode_out
        /\ loc' = [ret |-> AppendRows(decode_out,
                                       [idx \in 1..Len(decoded_strs) |-> record(idx)],
                                       1, << >>)]
        /\ metrics' = [decode_length |-> <<Average(decode_out.decode_lengths), 1>>]
  /\ pc' = "processed"
  /\ UNCHANGED <<pax_layer_registry, p, input_batch, lm_w, cache, prng, events, invoked, error,
                 calls, prev, predictions>>

\* decode_out as the caller hands it over is kept in prev.
InitOut ==
  /\ p \in [task : {"LanguageModel", "SequenceModel"}]
  /\ result \in IF p.task = "LanguageModel" THEN LmDecodeOuts ELSE SeqDecodeOuts
  /\ prev = [decode_out |-> result]
  /\ input_batch = EmptyMap
  /\ lm_w = 0
  /\ pc = "start"
  /\ loc = EmptyMap
  /\ cache = NoCache
  /\ prng = 0
  /\ events = << >>
  /\ invoked = << >>
  /\ metrics = EmptyMap
  /\ error = "none"
  /\ calls = 1
  /\ predictions = EmptyMap
  /\ pax_layer_registry = EmptyMap

NextOut ==
  \/ LmProcessDecodeOut
  \/ SeqProcessDecodeOut

SpecOut == InitOut /\ [][NextOut]_vars

C13_Rows == 1..Len(prev.decode_out.output_ids)

C13_Eligible ==
  { b \in C13_Rows : Has(prev.decode_out, "eval_sample_weights")
                       => prev.decode_out.eval_sample_weights[b] # 0 }

\* The row of the k-th record: the k-th eligible row in row order.
C13_RowOf(k) ==
  CHOOSE b \in C13_Eligible : Cardinality({ c \in C13_Eligible : c <= b }) = k

\* One record per eligible row, in row order, each carrying the first
\* sample of its row.
C13_OneRecordPerEligibleRow ==
  /\ Len(loc.ret) = Cardinality(C13_Eligible)
  /\ \A k \in 1..Len(loc.ret) :
       LET b == C13_RowOf(k) IN
       /\ loc.ret[k][2].ids = prev.decode_out.output_ids[b][1]
       /\ loc.ret[k][2].decode_length = prev.decode_out.decode_lengths[b][1]
       /\ loc.ret[k][2].logprobs = prev.decode_out.logprobs[b][1]

C13_Metric ==
  IF p.task = "LanguageModel" THEN metrics.decoded_length[1]
  ELSE metrics.decode_length[1]

C13_SumOver(rows) ==
  SumSeq([b \in C13_Rows |-> IF b \in rows THEN prev.decode_out.decode_lengths[b][1]
                             ELSE 0])

\* C13 as stated: one record per eligible row, and a skipped row contributes
\* to nothing that is returned, so the reported average decode length is the
\* average over the eligible rows.
C13_Original ==
  pc = "processed" =>
     /\ C13_OneRecordPerEligibleRow
     /\ C13_Eligible # {} =>
          C13_Metric.num * Cardinality(C13_Eligible)
            = C13_SumOver(C13_Eligible) * C13_Metric.den

\* C13 amended: process_decode_out returns exactly one record per row whose
\* eval_sample_weights entry is non-zero (per row when the field is absent),
\* in row order, and no record for the other rows; the average decode length
\* it reports is taken over all rows of the batch, skipped rows included, with
\* metric weight 1.
C13_SkippedRowsCountInAverage ==
  pc = "processed" =>
     /\ C13_OneRecordPerEligibleRow
     /\ C13_Metric.num = C13_SumOver(C13_Rows)
     /\ C13_Metric.den = Cardinality(C13_Rows)

C13_Witness ==
  /\ pc = "processed"
  /\ Has(prev.decode_out, "eval_sample_weights")
  /\ prev.decode_out.eval_sample_weights = <<0, 1>>
  /\ Len(loc.ret) = 1
  /\ loc.ret[1][2].ids = prev.decode_out.output_ids[2][1]
  /\ prev.decode_out.decode_lengths[1][1] = 2
  /\ prev.decode_out.decode_lengths[2][1] = 1
  /\ C13_Metric = [num |-> 3, den |-> 2]

(* ---------------------------- label smoothing -------------------------- *)
MaxVocab == 4
MaxProbDen == 10

\* label_smoothing_prob as the fraction num / den in [0, 1].
SmoothingProbs ==
  UNION { { [num |-> n, den |-> d] : n \in 0..d } : d \in 1..MaxProbDen }

\* jax.nn.one_hot of a class id in [0, vocab_size).
OneHot(class_id, vocab_size) ==
  [c \in 0..(vocab_size - 1) |-> IF c = class_id THEN 1 ELSE 0]

\* Mutant of SmoothedProbabilities: fill_prob is spread over every class.
SmoothedProbabilitiesFillAll(class_ids, prob, vocab_size) ==
  [den |-> prob.den * (vocab_size - 1),
   num |-> [i \in 1..Len(class_ids) |->
              LET one_hot == OneHot(class_ids[i], vocab_size)
              IN [c \in 0..(vocab_size - 1) |->
                    (prob.den - prob.num) * (vocab_size - 1) * one_hot[c] + prob.num]]]

\* (1 - prob) * one_hot + fill_prob * (1 - one_hot) with
\* fill_prob = prob / (vocab_size - 1), every entry over the common
\* denominator prob.den * (vocab_size - 1).
SmoothedProbabilities(class_ids, prob, vocab_size) ==
  [den |-> prob.den * (vocab_size - 1),
   num |-> [i \in 1..Len(class_ids) |->
              LET one_hot == OneHot(class_ids[i], vocab_size)
              IN [c \in 0..(vocab_size - 1) |->
                    (prob.den - prob.num) * (vocab_size - 1) * one_hot[c]
                      + prob.num * (1 - one_hot[c])]]]

\* The label part of compute_predictions of SequenceModel and BertModel.
SmoothLabels ==
  /\ pc = "start"
  /\ LET class_ids == IF p.task = "SequenceModel" THEN input_batch.tgt.labels
                      ELSE input_batch.labels
     IN loc' = IF p.label_smoothing_prob.num > 0
               THEN [class_ids |-> class_ids,
                     class_probabilities |->
                       SmoothedProbabilities(class_ids, p.label_smoothing_prob,
                                             p.vocab_size)]
               ELSE [class_ids |-> class_ids]
  /\ pc' = "smoothed"
  /\ UNCHANGED <<pax_layer_registry, p, input_batch, lm_w, cache, prng, events, invoked, result,
                 metrics, error, calls, prev, predictions>>

InitSmooth ==
  /\ p \in [task : {"SequenceModel", "BertModel"},
            label_smoothing_prob : SmoothingProbs,
            vocab_size : 2..MaxVocab]
  /\ \E T \in 1..MaxWidth : \E labels \in [1..T -> 0..(p.vocab_size - 1)] :
       input_batch = IF p.task = "SequenceModel"
                     THEN [tgt |-> [labels |-> labels, weights |-> Ones(T)]]
                     ELSE [labels |-> labels]
  /\ lm_w = 0
  /\ pc = "start"
  /\ loc = EmptyMap
  /\ cache = NoCache
  /\ prng = 0
  /\ events = << >>
  /\ invoked = << >>
  /\ result = EmptyMap
  /\ metrics = EmptyMap
  /\ error = "none"
  /\ calls = 1
  /\ prev = EmptyMap
  /\ predictions = EmptyMap
  /\ pax_layer_registry = EmptyMap

NextSmooth == SmoothLabels

SpecSmooth == InitSmooth /\ [][NextSmooth]_vars

C14_Smoothed == pc = "smoothed" /\ Has(loc, "class_probabilities")

C14_RowSum(i) ==
  SumSeq([k \in 1..p.vocab_size |-> loc.class_probabilities.num[i][k - 1]])

\* fill_prob over the common denominator.
C14_Fill == p.label_smoothing_prob.num

\* 1 - label_smoothing_prob over the common denominator.
C14_Keep == (p.label_smoothing_prob.den - p.label_smoothing_prob.num) * (p.vocab_size - 1)

\* C14 as stated: the true class gets (1 - label_smoothing_prob) + fill_prob,
\* every other class fill_prob, and every row sums to 1.
C14_Original ==
  C14_Smoothed =>
     \A i \in 1..Len(loc.class_ids) :
        /\ \A c \in 0..(p.vocab_size - 1) :
             loc.class_probabilities.num[i][c] =
               IF c = loc.class_ids[i] THEN C14_Keep + C14_Fill ELSE C14_Fill
        /\ C14_RowSum(i) = loc.class_probabilities.den

\* C14 amended: the true class gets exactly 1 - label_smoothing_prob (0.9 for
\* 0.1 and vocab_size 4), every other class fill_prob =
\* label_smoothing_prob / (vocab_size - 1), and every row sums to 1, for
\* vocab_size >= 2 and 0 < label_smoothing_prob <= 1; with
\* label_smoothing_prob = 0 no distribution is built.
C14_TrueClassKeepsOneMinusProb ==
  /\ pc = "smoothed" =>
       (Has(loc, "class_probabilities") <=> p.label_smoothing_prob.num > 0)
  /\ C14_Smoothed =>
       \A i \in 1..Len(loc.class_ids) :
          /\ \A c \in 0..(p.vocab_size - 1) :
               loc.class_probabilities.num[i][c] =
                 IF c = loc.class_ids[i] THEN C14_Keep ELSE C14_Fill
          /\ C14_RowSum(i) = loc.class_probabilities.den

C14_Witness ==
  /\ C14_Smoothed
  /\ p.label_smoothing_prob = [num |-> 1, den |-> 10]
  /\ p.vocab_size = 4
  /\ loc.class_ids = <<2>>
  /\ loc.class_probabilities.den = 30
  /\ loc.class_probabilities.num[1] = (0 :> 1) @@ (1 :> 1) @@ (2 :> 27) @@ (3 :> 1)

(* ------------------------- bound of the search loop -------------------- *)
C15_Searched == Has(p, "kind") /\ pc \in {"searched", "seq_searched"}

\* Tokens the search produced for row b beyond its prefix.
C15_Generated(b) == result.decode_lengths[b] - result.prefix_lengths[b]

\* Positions after the row's decode length hold padding only.
C15_PaddingAfterStop(b) ==
  \A i \in 1..Len(result.output_ids[b]) :
     i > result.decode_lengths[b] => result.output_ids[b][i] = 0

\* C15 as stated: for every strategy and task type a row receives at most
\* max_decode_steps tokens when that is configured and at most
\* seqlen - start_time_step otherwise, and only padding after it stopped.
C15_Original ==
  C15_Searched =>
     \A b \in 1..Len(result.output_ids) :
        /\ C15_Generated(b) <= IF IsNone(p.max_decode_steps) THEN invoked[1].seq_len
                               ELSE Val(p.max_decode_steps)
        /\ C15_PaddingAfterStop(b)

\* C15 amended: every decode call comes to an end; in LanguageModel.decode a
\* row receives at most max_decode_steps tokens beyond its prefix when that
\* is configured and at most seqlen otherwise; SequenceModel.decode does not
\* hand max_decode_steps to greedy_decode, so its rows receive up to seqlen
\* tokens whatever max_decode_steps is; after a row stopped its output holds
\* padding only.
C15_BoundedSearch ==
  /\ (Has(p, "kind") /\ pc \notin {"done", "failed"}) => ENABLED NextAll
  /\ C15_Searched =>
       \A b \in 1..Len(result.output_ids) :
          /\ C15_PaddingAfterStop(b)
          /\ IF pc = "seq_searched"
             THEN /\ ~Has(invoked[1], "max_decode_steps")
                  /\ C15_Generated(b) <= p.seqlen
             ELSE C15_Generated(b) <=
                    IF IsNone(p.max_decode_steps) THEN invoked[1].seq_len
                    ELSE Val(p.max_decode_steps)

C15_Witness ==
  /\ C15_Searched
  /\ pc = "searched"
  /\ p.max_decode_steps = Some(1)
  /\ p.seqlen = 3
  /\ ~p.fprop_for_prefix
  /\ result.prefix_lengths = <<1>>
  /\ result.decode_lengths = <<2>>
  /\ result.output_ids[1][2] # 0
  /\ result.output_ids[1][3] = 0

(* -------------------- beam search and fprop_for_prefix ----------------- *)
C16_ModelInvoked == \E i \in 1..Len(events) : events[i] = "lm"

\* C16 as stated: a Beam or Flat-Beam configuration without fprop_for_prefix
\* never invokes the model, never runs a search and never returns.
C16_Original ==
  (p.kind \in {"Beam", "FlatBeam"} /\ ~p.fprop_for_prefix) =>
     /\ ~C16_ModelInvoked
     /\ invoked = << >>
     /\ pc # "done"

\* C16 amended: only the Beam variant requires fprop_for_prefix: without it
\* decode fails with AssertionError (when seqlen > 0) before the model is
\* invoked and before any search is run.  A Flat-Beam configuration without
\* fprop_for_prefix and with seqlen > 0 never fails: it invokes the model,
\* runs flat_beam_search and returns.
C16_OnlyBeamAsserts ==
  /\ (p.kind = "Beam" /\ ~p.fprop_for_prefix) =>
        /\ ~C16_ModelInvoked
        /\ invoked = << >>
        /\ pc # "done"
        /\ (pc = "failed" /\ p.seqlen > 0) => error = "AssertionError"
  /\ (p.kind = "FlatBeam" /\ ~p.fprop_for_prefix /\ p.seqlen > 0) =>
        /\ pc # "failed"
        /\ pc \in {"searched", "done"} =>
             /\ C16_ModelInvoked
             /\ Len(invoked) = 1
             /\ invoked[1].fn = "flat_beam_search"

C16_Witness ==
  /\ p.kind = "Beam"
  /\ ~p.fprop_for_prefix
  /\ pc = "failed"
  /\ error = "AssertionError"
  /\ ~C16_ModelInvoked
  /\ invoked = << >>

(* ------------------ greedy decoding without prefix_lengths ------------- *)
\* A greedy search over a batch that supplies no prefix_lengths, without
\* fprop_for_prefix.
C17_Case ==
  /\ pc = "searched"
  /\ p.kind = "Greedy"
  /\ ~p.fprop_for_prefix
  /\ ~Has(input_batch, "prefix_lengths")

C17_TrueLength == NonPadCount(input_batch.paddings)

\* The row stops at the first eos it emits after its prefix, or at its step
\* limit, or at the end of the sequence.
C17_StopsAtFirstEos(b) ==
  LET plen == result.prefix_lengths[b]
      dl == result.decode_lengths[b]
      out == result.output_ids[b]
  IN /\ \A i \in 1..Len(out) : (plen < i /\ i < dl) => out[i] # p.eos_id
     /\ plen < dl =>
          \/ out[dl] = p.eos_id
          \/ dl = p.seqlen
          \/ ~IsNone(p.max_decode_steps) /\ dl - plen = Val(p.max_decode_steps)

\* C17 as stated: every row starts generating at its count of non-padding
\* tokens and stops at the first emitted eos_id.
C17_Original ==
  C17_Case =>
     \A b \in 1..Shape0(input_batch.ids) :
        /\ result.prefix_lengths[b] = C17_TrueLength[b]
        /\ C17_StopsAtFirstEos(b)

\* C17 amended: without prefix_lengths in the batch, greedy decode starts
\* generating each row at a prefix length drawn between
\* min(count, min_prefix_len) and the row's count of non-padding tokens; this
\* is the count itself exactly when min_prefix_len >= count is forced; the
\* tokens before that position are the row's own, and the row stops at the
\* first eos_id emitted after it (or at max_decode_steps or seqlen).
C17_StartsAtDrawnPrefix ==
  C17_Case =>
     \A b \in 1..Shape0(input_batch.ids) :
        LET plen == result.prefix_lengths[b] IN
        /\ Min(C17_TrueLength[b], p.min_prefix_len) <= plen
        /\ plen <= C17_TrueLength[b]
        /\ p.min_prefix_len >= C17_TrueLength[b] => plen = C17_TrueLength[b]
        /\ \A i \in 1..Min(plen, p.seqlen) :
             result.output_ids[b][i] = input_batch.ids[b][i]
        /\ C17_StopsAtFirstEos(b)

C17_Witness ==
  /\ C17_Case
  /\ input_batch.ids = ScenarioIds
  /\ p.seqlen = ScenarioWidth
  /\ p.min_prefix_len = ScenarioWidth
  /\ IsNone(p.max_decode_steps)
  /\ result.prefix_lengths = <<3, 2>>
  /\ \E b \in 1..2 :
       /\ result.decode_lengths[b] > result.prefix_lengths[b]
       /\ result.decode_lengths[b] < ScenarioWidth
       /\ result.output_ids[b][result.decode_lengths[b]] = 0

(* ------------------- decode without fprop_for_prefix ------------------- *)
\* The locals of the branch without fprop_for_prefix are set.
C18_Case ==
  /\ ~p.fprop_for_prefix
  /\ pc \in {"dispatch", "primed", "padded", "searched", "done"}

C18_Unaligned ==
  /\ loc.start_time_step = 0
  /\ loc.seqlen = p.seqlen
  /\ loc.input_ids = input_batch.ids
  /\ loc.input_paddings = input_batch.paddings
  /\ Len(invoked) = 1 =>
       invoked[1].ids = input_batch.ids /\ invoked[1].paddings = input_batch.paddings
  /\ \A b \in 1..Shape0(input_batch.ids) : loc.fprop_input_ids[b] = <<0>>
  /\ cache.created => cache.time \in {1, p.seqlen}

\* C18 as stated: the priming input is one dummy step per row whose padding
\* value is 0, a real position.
C18_Original ==
  C18_Case =>
     /\ C18_Unaligned
     /\ \A b \in 1..Shape0(input_batch.ids) : loc.fprop_input_paddings[b] = <<0>>

\* C18 amended: without fprop_for_prefix decode uses start_time_step = 0,
\* hands the batch's ids and paddings to the search unaligned, and primes the
\* cache over a single dummy step per row with id 0 and padding value 1, that
\* is a padded position.
C18_DummyStepIsPadded ==
  C18_Case =>
     /\ C18_Unaligned
     /\ \A b \in 1..Shape0(input_batch.ids) : loc.fprop_input_paddings[b] = <<1>>

C18_Witness ==
  /\ C18_Case
  /\ pc = "primed"
  /\ cache = [created |-> TRUE, time |-> 1]
  /\ Shape0(input_batch.ids) = 2
  /\ loc.fprop_input_ids = << <<0>>, <<0>> >>
  /\ loc.fprop_input_paddings = << <<1>>, <<1>> >>
  /\ loc.input_ids = input_batch.ids
  /\ Shape1(input_batch.ids) = 2

(* ---------------------- sampling with suffix scoring ------------------- *)
\* One-row batches with and without a suffix / suffix_lengths pair: one
\* suffix of two tokens.
SuffixBatches ==
  LET rows == { bt \in LmBatches : Shape0(bt.ids) = 1 }
      extra == { EmptyMap, [suffix |-> << <<5, 6>> >>], [suffix_lengths |-> <<2>>],
                 [suffix |-> << <<5, 6>> >>, suffix_lengths |-> <<2>>] }
  IN { Update(bt, e) : <<bt, e>> \in rows \X extra }

InitSuffix ==
  /\ p \in { c \in DecoderConfigs : c.kind = "Sample" }
  /\ input_batch \in SuffixBatches
  /\ lm_w \in 0..(NumWeights - 1)
  /\ Idle

NextSuffix ==
  \/ CheckConfig
  \/ SetPrefixLengths
  \/ Prepare
  \/ InitCacheStates
  \/ PadToFullLength
  \/ SampleDecode
  \/ Finish

SpecSuffix == InitSuffix /\ [][NextSuffix]_vars

C19_BatchHasSuffix == Has(input_batch, "suffix") /\ Has(input_batch, "suffix_lengths")

NumLabels == 3
MaxTermLen == 2

LabelNames == <<"b", "d", "f", "h", "k">>
Labels == { LabelNames[i] : i \in 1..NumLabels }
Ellipsis == <<".", ".", ".">>

\* set(s) of a string.
Chars(s) == { s[i] : i \in 1..Len(s) }

\* s.index(c), counted from 0.
Index(s, c) == (CHOOSE i \in 1..Len(s) : s[i] = c /\ \A j \in 1..(i - 1) : s[j] # c) - 1

\* sorted(S) of a set of integers.
Sorted(S) ==
  [k \in 1..Cardinality(S) |-> CHOOSE v \in S : Cardinality({ u \in S : u <= v }) = k]

\* eqn.split('->') and operands.split(',').
SplitEqn(eqn) ==
  LET arrow == CHOOSE i \in 1..(Len(eqn) - 1) : eqn[i] = "-" /\ eqn[i + 1] = ">"
      operands == SubSeq(eqn, 1, arrow - 1)
      comma == CHOOSE i \in 1..Len(operands) : operands[i] = ","
  IN [x |-> SubSeq(operands, 1, comma - 1),
      w |-> SubSeq(operands, comma + 1, Len(operands)),
      out |-> SubSeq(eqn, arrow + 2, Len(eqn))]

\* Terms of up to MaxTermLen distinct labels.
Terms ==
  UNION { { t \in [1..n -> Labels] : \A i, j \in 1..n : t[i] = t[j] => i = j } :
          n \in 1..MaxTermLen }

\* Equations input,w->output, the input and the output with or without a
\* leading ellipsis, the weight term without (or, once, with) one.
Equations ==
  LET dotted == Terms \cup { Ellipsis \o t : t \in Terms }
      weights == Terms \cup { Ellipsis \o <<LabelNames[1]>> }
  IN { x \o <<",">> \o w \o <<"-", ">">> \o out :
         <<x, w, out>> \in dotted \X weights \X dotted }

\* Mutant of EinsumSetup: the position of the fan-out dims is not checked.
EinsumSetupAnyPosition ==
  /\ pc = "start"
  /\ LET t == SplitEqn(p.eqn)
         x == t.x
         w == t.w
         out == t.out
         fan_in_labels == Chars(x) \ Chars(out)
         fan_out_labels == Chars(out) \ Chars(x)
     IN IF "." \in Chars(w)
        THEN Raise("AssertionError") /\ UNCHANGED result
        ELSE IF \E d \in fan_in_labels \cup fan_out_labels : d \notin Chars(w)
        THEN Raise("ValueError") /\ UNCHANGED result
        ELSE LET wvar == [shape |-> p.w_shape,
                          fan_in_axes |-> Sorted({ Index(w, d) : d \in fan_in_labels }),
                          fan_out_axes |-> Sorted({ Index(w, d) : d \in fan_out_labels })]
                 out_bias_dims == Sorted({ Index(out, d) : d \in fan_out_labels })
                 bias_shape == [k \in 1..Len(out_bias_dims) |->
                                  p.w_shape[Index(w, out[out_bias_dims[k] + 1]) + 1]]
             IN /\ result' = IF p.use_bias
                             THEN [w |-> wvar, b |-> [shape |-> bias_shape]]
                             ELSE [w |-> wvar]
                /\ pc' = "setup"
                /\ UNCHANGED <<error, events>>
  /\ UNCHANGED <<pax_layer_registry, p, input_batch, lm_w, loc, cache, prng, invoked, metrics,
                 calls, prev, predictions>>

\* Einsum.setup: the variables w and, with use_bias, b.
EinsumSetup ==
  /\ pc = "start"
  /\ LET t == SplitEqn(p.eqn)
         x == t.x
         w == t.w
         out == t.out
         fan_in_labels == Chars(x) \ Chars(out)
         fan_out_labels == Chars(out) \ Chars(x)
     IN IF "." \in Chars(w)
        THEN Raise("AssertionError") /\ UNCHANGED result
        ELSE IF \E d \in fan_in_labels \cup fan_out_labels : d \notin Chars(w)
        THEN Raise("ValueError") /\ UNCHANGED result
        ELSE LET wvar == [shape |-> p.w_shape,
                          fan_in_axes |-> Sorted({ Index(w, d) : d \in fan_in_labels }),
                          fan_out_axes |-> Sorted({ Index(w, d) : d \in fan_out_labels })]
                 out_bias_dims == Sorted({ Index(out, d) : d \in fan_out_labels })
                 bias_shape == [k \in 1..Len(out_bias_dims) |->
                                  p.w_shape[Index(w, out[out_bias_dims[k] + 1]) + 1]]
             IN IF ~p.use_bias
                THEN /\ result' = [w |-> wvar]
                     /\ pc' = "setup"
                     /\ UNCHANGED <<error, events>>
                ELSE IF ~(\A k \in 1..Len(out_bias_dims) :
                            out_bias_dims[k] >= Len(out) - Len(out_bias_dims))
                THEN /\ Raise("AssertionError")
                     /\ result' = [w |-> wvar]
                ELSE /\ result' = [w |-> wvar, b |-> [shape |-> bias_shape]]
                     /\ pc' = "setup"
                     /\ UNCHANGED <<error, events>>
  /\ UNCHANGED <<pax_layer_registry, p, input_batch, lm_w, loc, cache, prng, invoked, metrics,
                 calls, prev, predictions>>

\* Einsum.__call__: the einsum of the inputs with theta.w, plus theta.b with
\* use_bias; the value is kept as an expression.
EinsumCall ==
  /\ pc = "setup"
  /\ LET ret == [op |-> "einsum", eqn |-> p.eqn, inputs |-> "inputs", w |-> "theta.w"]
     IN predictions' = IF p.use_bias
                       THEN [op |-> "add", left |-> ret, right |-> "theta.b"]
                       ELSE ret
  /\ pc' = "called"
  /\ UNCHANGED <<pax_layer_registry, p, input_batch, lm_w, loc, cache, prng, events, invoked,
                 result, metrics, error, calls, prev>>

InitEinsum ==
  /\ \E eqn \in Equations : \E use_bias \in BOOLEAN :
       \E w_shape \in [1..Len(SplitEqn(eqn).w) -> {2, 3}] :
          p = [eqn |-> eqn, w_shape |-> w_shape, use_bias |-> use_bias]
  /\ input_batch = EmptyMap
  /\ lm_w = 0
  /\ Idle

NextEinsum ==
  \/ EinsumSetup
  \/ EinsumCall

SpecEinsum == InitEinsum /\ [][NextEinsum]_vars

C20_Out == SplitEqn(p.eqn).out

C20_FanOut == Chars(C20_Out) \ Chars(SplitEqn(p.eqn).x)

\* The fan-out labels occupy the last positions of the output term.
C20_Trailing ==
  \A i \in 1..Len(C20_Out) :
     C20_Out[i] \in C20_FanOut <=> i > Len(C20_Out) - Cardinality(C20_FanOut)

\* The weight-shape entry of label d.
C20_WeightDim(d) ==
  LET w == SplitEqn(p.eqn).w
  IN p.w_shape[CHOOSE i \in 1..Len(w) : w[i] = d]

NumInstances == 2
MaxAdds == 3

\* Layer names, one of them holding the separator of the key.
LayerNames == {"a", "a : m"}

\* Layers: the class of the object and the module inspect.getmodule finds for
\* it, None when it finds none.
Layers ==
  { [cls |-> "Linear", module |-> Some("m")],
    [cls |-> "Linear", module |-> Some("n")],
    [cls |-> "Bias", module |-> None] }

LayerInfo(layer, conflict) == [layer |-> layer, conflict |-> conflict]

\* name + ' : ' + inspect.getmodule(layer).__name__
Key(name, module_name) == name \o " : " \o module_name

\* Mutant of AddLayer: the key is the name alone.
AddLayerKeyedByName(self, name, layer, conflict) ==
  /\ Len(events) < MaxAdds
  /\ IF IsNone(layer.module)
     THEN /\ error' = "AttributeError"
          /\ UNCHANGED pax_layer_registry
     ELSE /\ pax_layer_registry' =
               Update(pax_layer_registry, (name :> LayerInfo(layer, conflict)))
          /\ error' = "none"
  /\ events' = Append(events, [name |-> name, layer |-> layer, conflict |-> conflict])
  /\ loc' = Update(loc, [adder |-> self])
  /\ UNCHANGED <<p, input_batch, lm_w, pc, cache, prng, invoked, result,
                 metrics, calls, prev, predictions>>

\* LayerRegistry.add_layer on instance self; events keeps the calls made and
\* loc the instance of the last call.
AddLayer(self, name, layer, conflict) ==
  /\ Len(events) < MaxAdds
  /\ IF IsNone(layer.module)
     THEN /\ error' = "AttributeError"
          /\ UNCHANGED pax_layer_registry
     ELSE LET key == Key(name, Val(layer.module))
              layer_info == LayerInfo(layer, conflict)
          IN /\ pax_layer_registry' = Update(pax_layer_registry, (key :> layer_info))
             /\ error' = "none"
  /\ events' = Append(events, [name |-> name, layer |-> layer, conflict |-> conflict])
  /\ loc' = Update(loc, [adder |-> self])
  /\ UNCHANGED <<p, input_batch, lm_w, pc, cache, prng, invoked, result,
                 metrics, calls, prev, predictions>>

\* LayerRegistry.get_registry on instance self: the caller is handed the
\* module-level dict itself, not a copy.
GetRegistry(self) ==
  /\ result' = [ref |-> "pax_layer_registry"]
  /\ loc' = Update(loc, [getter |-> self])
  /\ error' = "none"
  /\ UNCHANGED <<pax_layer_registry, p, input_batch, lm_w, pc, cache, prng,
                 events, invoked, metrics, calls, prev, predictions>>

InitRegistry ==
  /\ p = EmptyMap
  /\ input_batch = EmptyMap
  /\ lm_w = 0
  /\ Idle

NextRegistry ==
  \/ \E self \in 1..NumInstances, name \in LayerNames, layer \in Layers,
        conflict \in BOOLEAN : AddLayer(self, name, layer, conflict)
  \/ \E self \in 1..NumInstances : GetRegistry(self)

SpecRegistry == InitRegistry /\ [][NextRegistry]_vars

\* The add_layer calls that returned.
C21_Added == { i \in 1..Len(events) : ~IsNone(events[i].layer.module) }

C21_Pair(i) == <<events[i].name, Val(events[i].layer.module)>>

\* The last returned call for the (name, module) pair of call i.
C21_Last(i) ==
  CHOOSE j \in C21_Added :
     /\ C21_Pair(j) = C21_Pair(i)
     /\ \A k \in C21_Added : C21_Pair(k) = C21_Pair(i) => k <= j

\* C21: the registry is one mapping for all instances: it holds exactly one
\* entry per distinct (name, module) pair of the add_layer calls made so far
\* on any instance, the entry being the layer and conflict flag of the last
\* call for that pair; no entry is ever missing again, equal names from
\* different modules have entries of their own, and get_registry on any
\* instance returns that mapping.
C21_OneEntryPerNameAndModule ==
  /\ DOMAIN pax_layer_registry =
       { Key(C21_Pair(i)[1], C21_Pair(i)[2]) : i \in C21_Added }
  /\ Cardinality(DOMAIN pax_layer_registry) =
       Cardinality({ C21_Pair(i) : i \in C21_Added })
  /\ \A i \in C21_Added :
       pax_layer_registry[Key(C21_Pair(i)[1], C21_Pair(i)[2])] =
         LayerInfo(events[C21_Last(i)].layer, events[C21_Last(i)].conflict)
  /\ Has(loc, "getter") => result = [ref |-> "pax_layer_registry"]

C21_Witness ==
  /\ Len(events) = 3
  /\ Has(loc, "getter") /\ Has(loc, "adder")
  /\ loc.getter # loc.adder
  /\ result = [ref |-> "pax_layer_registry"]
  /\ DOMAIN pax_layer_registry = {"a : m", "a : n"}
  /\ events[1] = [name |-> "a", layer |-> [cls |-> "Linear", module |-> Some("m")],
                  conflict |-> FALSE]
  /\ events[2].layer.module = Some("n")
  /\ events[3] = [name |-> "a", layer |-> [cls |-> "Linear", module |-> Some("m")],
                  conflict |-> TRUE]
  /\ pax_layer_registry["a : m"] = LayerInfo(events[3].layer, TRUE)
  /\ pax_layer_registry["a : n"] = LayerInfo(events[2].layer, events[2].conflict)

====
